---- MODULE Spec2Model ----
(***************************************************************************)
(* Business Strategy Research System: the research controller              *)
(* (src/src/controller/research_controller.py), the research engine        *)
(* (src/src/engine/research_engine.py) and the quality checker             *)
(* (src/src/utils/validators.py) as state machines.                        *)
(***************************************************************************)
EXTENDS Integers, Sequences, FiniteSets, TLC

(***************************************************************************)
(* Bounds of the model.                                                    *)
(***************************************************************************)
\* largest configured ResearchConfig.max_retries that is explored
MaxRetries == 3
\* themes kept per phase of the phase configuration
MaxThemes == 2
\* collaborator outcomes other than the nominal one (an engine failure, a
\* report, save or summary error, a quality check that fails or raises) in
\* one run of an entry point
MaxFaults == 1
\* text blocks in a report file given to the quality checker
MaxBlocks == 4
\* longest prompt template, in symbols
MaxPromptLen == 4
\* longest research result handed to extract_sources, in tokens
MaxTextLen == 4
\* most lines of a text handed to a truncation function
MaxLines == 3

(***************************************************************************)
(* Inputs and state.                                                       *)
(***************************************************************************)
VARIABLES
    max_retries,      \* ResearchConfig.max_retries of the controller
    engine,           \* "real": ResearchEngine, "stub": an injected engine that may raise
    configFile,       \* "ok" or "missing": config/phase_config.json
    phase_config,     \* contents of phase_config.json: phase -> ordered theme ids
    phase_results,    \* self.phase_results
    op,               \* the running entry point: "none", "full", "phase", "single"
    pc,               \* position of the controller inside the entry point
    pi,               \* index into phases of run_full_research
    phase_name,       \* phase_name of the running run_phase_research / run_single_theme
    themes,           \* the themes being iterated
    ti,               \* index of the current theme in themes
    step,             \* loop variable of the step loop
    attempt,          \* loop variable of _execute_research_with_retry
    theme_results,    \* local list theme_results
    previous_results, \* local previous_results (<<>> is None, <<x>> is the value x)
    local_results,    \* local dict phase_results of run_phase_research
    report_path,      \* local report_path
    script,           \* what the engine will do during the current step execution
    outcome,          \* how the last entry point ended: "none", "returned", "raised"
    saved,            \* phase_results.json files written, by phase
    trace,            \* history: collaborator calls made for the current theme
    phaseLog,         \* history: phases attempted by the running entry point, each
                      \* with the outcome of the report and check of its themes
    lastExec,         \* history: the last finished _execute_research_with_retry
    delays,           \* history: retry_delay sleeps of the current step execution
    summaries,        \* history: generate_summary_report calls of the running entry point
    faults,           \* non-nominal collaborator outcomes so far
    report_file,      \* quality checker: the report file (state and text)
    quality_config,   \* quality checker: QualityConfig thresholds
    validator,        \* quality checker: "none" or "custom" (an injected validator)
    qc_result,        \* quality checker: <<>> before, <<r>> after check_report returned r
    call,             \* a function called on its own: its name, "none" otherwise
    args,             \* the arguments of that call
    returns           \* the values the calls of that function returned, in order

ctlVars == <<max_retries, engine, configFile, phase_config, phase_results, op, pc, pi,
             phase_name, themes, ti, step, attempt, theme_results, previous_results,
             local_results, report_path, script, outcome, saved, trace, phaseLog,
             lastExec, delays, summaries, faults>>

qcVars == <<report_file, quality_config, validator, qc_result>>

fnVars == <<call, args, returns>>

vars == <<ctlVars, qcVars, fnVars>>

(***************************************************************************)
(* Phase list and theme table.                                             *)
(***************************************************************************)
phases == <<"phase_1", "phase_2", "phase_3", "phase_4", "phase_5",
            "phase_6", "phase_7", "phase_8", "final_phase">>

PhaseSet == {phases[i] : i \in 1..Len(phases)}

\* int(current_phase.split("_")[1]) for the numbered phases
PhaseNum(p) == CHOOSE i \in 1..8 : phases[i] = p

\* f"phase_{n}"
PhaseName(n) == phases[n]

phase_mapping ==
    [p \in PhaseSet |->
        CASE p = "phase_1" -> <<"A", "B">>
          [] p = "phase_2" -> <<"1", "2", "3", "4">>
          [] p = "phase_3" -> <<"5", "6", "7">>
          [] p = "phase_4" -> <<"8", "9", "10", "11", "12">>
          [] p = "phase_5" -> <<"13", "14", "15">>
          [] p = "phase_6" -> <<"16", "17", "18", "19", "20", "21", "22", "23",
                               "24", "25", "26">>
          [] p = "phase_7" -> <<"27", "28", "29", "30", "31", "32">>
          [] p = "phase_8" -> <<"33", "34", "35">>
          [] OTHER         -> <<"Z">>]

FirstN(s, n) == SubSeq(s, 1, IF Len(s) < n THEN Len(s) ELSE n)

\* the phases that phase_config.json defines, in the configurations explored
PresentChoices == { {"phase_1", "phase_2", "final_phase"}, {"phase_4"} }

PhaseConfigChoices ==
    { [p \in present |-> FirstN(phase_mapping[p], MaxThemes)] : present \in PresentChoices }

AllThemes == UNION { {phase_mapping[p][i] : i \in 1..Len(phase_mapping[p])} : p \in PhaseSet }

(***************************************************************************)
(* Python values.                                                          *)
(***************************************************************************)
None == <<>>
Some(x) == <<x>>
EmptyDict == <<>>
DictSet(d, k, v) == (k :> v) @@ d

\* truth value of an Optional[Dict]: None and {} are false
Truthy(o) == o # None /\ DOMAIN o[1] # {}

(***************************************************************************)
(* Research engine: ResearchEngine.execute_research.                       *)
(***************************************************************************)
\* the places of execute_research where an exception can start
FailStages == {"load_prompt", "replace_variables", "add_context",
               "execute_with_cursor_ai", "extract_sources"}

Block(name, entries) == [block |-> name, entries |-> entries]

\* add_previous_context: one block, one entry per earlier result of the theme
add_previous_context(prompt, tres) ==
    IF tres = <<>> THEN prompt
    ELSE Append(prompt, Block("previous_steps", {r.step : r \in {tres[i] : i \in 1..Len(tres)}}))

\* a variant of add_phase_context with an entry for every top-level value
add_phase_context_EveryValue(prompt, prev) ==
    IF DOMAIN prev = {} THEN prompt
    ELSE Append(prompt, Block("previous_phase", DOMAIN prev))

\* add_phase_context: the block header, and one fixed-text entry for every
\* top-level value that is a dict holding the key "results"
add_phase_context(prompt, prev) ==
    IF DOMAIN prev = {} THEN prompt
    ELSE Append(prompt, Block("previous_phase",
                              {k \in DOMAIN prev : "results" \in DOMAIN prev[k]}))

\* the value of the local `prompt` after each stage of execute_research
PromptLoaded == <<Block("template", {})>>
PromptReplaced == <<Block("rendered", {})>>
PromptWithSteps(s, tres) ==
    IF s > 1 /\ tres # <<>> THEN add_previous_context(PromptReplaced, tres)
    ELSE PromptReplaced
PromptFinal(s, prev, tres) ==
    IF Truthy(prev) /\ s = 1 THEN add_phase_context(PromptWithSteps(s, tres), prev[1])
    ELSE PromptWithSteps(s, tres)

\* `prompt if "prompt" in locals() else ""` when the stage `fail` raises
PromptAtFailure(s, prev, tres, fail) ==
    CASE fail = "load_prompt"       -> <<>>
      [] fail = "replace_variables" -> PromptLoaded
      [] fail = "add_context"       -> PromptReplaced
      [] OTHER                      -> PromptFinal(s, prev, tres)

StepResult(t, s, prompt, result, sources, error) ==
    [theme_id |-> t, step |-> s, prompt |-> prompt, result |-> result,
     sources |-> sources, error |-> error]

Returned(v) == [raised |-> FALSE, value |-> v]
Raised == [raised |-> TRUE, value |-> <<>>]

\* a variant of execute_research in which source extraction is outside the
\* try block, so that its failure propagates
ExecuteResearch_Propagates(t, s, prev, tres, fail) ==
    IF fail = "none"
    THEN Returned(StepResult(t, s, PromptFinal(s, prev, tres), "research_result",
                             <<"source">>, None))
    ELSE IF fail = "extract_sources" THEN Raised
    ELSE Returned(StepResult(t, s, PromptAtFailure(s, prev, tres, fail),
                             "error_string", <<>>, Some("error")))

\* execute_research: try-block result, or the except-block result when the
\* stage `fail` raises ("none": no stage raises)
ExecuteResearch(t, s, prev, tres, fail) ==
    IF fail = "none"
    THEN Returned(StepResult(t, s, PromptFinal(s, prev, tres), "research_result",
                             <<"source">>, None))
    ELSE Returned(StepResult(t, s, PromptAtFailure(s, prev, tres, fail),
                             "error_string", <<>>, Some("error")))

\* an injected engine that raises on its first sc.raises calls of a step
\* execution and succeeds afterwards
StubExecute(t, s, callIndex, sc) ==
    IF callIndex < sc.raises THEN Raised
    ELSE Returned(StepResult(t, s, <<Block("stub", {})>>, "research_result", <<>>, None))

EngineCall(t, s, prev, tres, callIndex, sc) ==
    IF engine = "real" THEN ExecuteResearch(t, s, prev, tres, sc.stage)
    ELSE StubExecute(t, s, callIndex, sc)

NoScript == [raises |-> 0, stage |-> "none"]

\* the behaviours of the engine during one step execution
Scripts ==
    IF engine = "real"
    THEN {[raises |-> 0, stage |-> f] : f \in FailStages \cup {"none"}}
    ELSE {[raises |-> k, stage |-> "none"] : k \in 0..max_retries}

Faulty(sc) == sc # NoScript

(***************************************************************************)
(* Research controller.                                                    *)
(***************************************************************************)
\* a variant of get_previous_results that looks up phase_{n} instead of
\* phase_{n-1}
get_previous_results_OffByOne(current_phase, results) ==
    IF current_phase = "final_phase" THEN Some(results)
    ELSE IF PhaseNum(current_phase) = 1 THEN None
    ELSE LET previous_phase == PhaseName(PhaseNum(current_phase))
         IN  IF previous_phase \in DOMAIN results THEN Some(results[previous_phase])
             ELSE None

\* get_previous_results
get_previous_results(current_phase, results) ==
    IF current_phase = "final_phase" THEN Some(results)
    ELSE IF PhaseNum(current_phase) = 1 THEN None
    ELSE LET previous_phase == PhaseName(PhaseNum(current_phase) - 1)
         IN  IF previous_phase \in DOMAIN results THEN Some(results[previous_phase])
             ELSE None

\* a variant of the attempt loop that makes one iteration less
RetryLimit_OneLess == max_retries - 1

\* number of iterations of the attempt loop: range(self.config.max_retries)
RetryLimit == max_retries

ReportPath(p, t) == [phase |-> p, file |-> t]

\* str(path) of a report path: its text, no longer a Path
PathStr(path) == <<"outputs", path.phase, path.file>>

\* a variant of save_phase_results that dumps the stored entries whole
Serializable_Whole(results) ==
    [t \in DOMAIN results |->
        [report_path |-> PathStr(results[t].report_path), quality |-> results[t].quality,
         results |-> results[t].results]]

\* serializable_results of save_phase_results
Serializable(results) ==
    [t \in DOMAIN results |->
        [report_path |-> PathStr(results[t].report_path), quality |-> results[t].quality]]

CurTheme == themes[ti]

NoExec == [step |-> 0, script |-> NoScript, calls |-> 0, delays |-> 0, outcome |-> "none",
           exception |-> None]

TypeOK ==
    /\ max_retries \in 0..(MaxRetries + 1)
    /\ engine \in {"real", "stub"}
    /\ configFile \in {"ok", "missing"}
    /\ op \in {"none", "full", "phase", "single"}
    /\ pc \in {"idle", "full_loop", "phase_load", "single_load", "theme_loop",
               "step_loop", "retry", "report", "quality", "summary", "done"}
    /\ outcome \in {"none", "returned", "raised"}
    /\ DOMAIN phase_results \subseteq PhaseSet
    /\ faults \in 0..(MaxFaults + 1)

Init ==
    /\ max_retries \in 0..MaxRetries
    /\ engine \in {"real", "stub"}
    /\ \/ configFile = "ok" /\ phase_config \in PhaseConfigChoices
       \/ configFile = "missing" /\ phase_config = EmptyDict
    /\ phase_results = EmptyDict
    /\ op = "none"
    /\ pc = "idle"
    /\ pi = 1
    /\ phase_name = ""
    /\ themes = <<>>
    /\ ti = 1
    /\ step = 1
    /\ attempt = 0
    /\ theme_results = <<>>
    /\ previous_results = None
    /\ local_results = EmptyDict
    /\ report_path = None
    /\ script = NoScript
    /\ outcome = "none"
    /\ saved = EmptyDict
    /\ trace = <<>>
    /\ phaseLog = <<>>
    /\ lastExec = NoExec
    /\ delays = 0
    /\ summaries = 0
    /\ faults = 0
    /\ report_file = [state |-> "missing", content |-> <<>>]
    /\ quality_config = [min_word_count |-> 3000, min_sources |-> 10]
    /\ validator = "none"
    /\ qc_result = None
    /\ call = "none"
    /\ args = <<>>
    /\ returns = <<>>

\* ---- entry points -------------------------------------------------------
StartOp(log) ==
    /\ pc = "idle"
    /\ phaseLog' = log
    /\ UNCHANGED <<summaries, trace, lastExec>>

\* run_full_research is called
StartFull ==
    /\ StartOp(<<>>)
    /\ op' = "full"
    /\ pi' = 1
    /\ pc' = "full_loop"
    /\ UNCHANGED <<qcVars, fnVars>>
    /\ UNCHANGED <<max_retries, engine, configFile, phase_config, phase_results,
                   phase_name, themes, ti, step, attempt, theme_results,
                   previous_results, local_results, report_path, script, outcome,
                   saved, delays, faults>>

\* run_phase_research is called from outside (phase selection)
StartPhase ==
    /\ \E p \in PhaseSet :
         /\ phase_name' = p
         /\ StartOp(<<[phase |-> p, outcome |-> "running", themeLog |-> <<>>]>>)
    /\ op' = "phase"
    /\ pc' = "phase_load"
    /\ UNCHANGED <<qcVars, fnVars>>
    /\ UNCHANGED <<max_retries, engine, configFile, phase_config, phase_results, pi,
                   themes, ti, step, attempt, theme_results, previous_results,
                   local_results, report_path, script, outcome, saved, delays,
                   faults>>

\* run_full_research: head of `for phase in phases`
FullNextPhase ==
    /\ pc = "full_loop"
    /\ pi <= Len(phases)
    /\ phase_name' = phases[pi]
    /\ phaseLog' = Append(phaseLog, [phase |-> phases[pi], outcome |-> "running",
                                     themeLog |-> <<>>])
    /\ pc' = "phase_load"
    /\ UNCHANGED <<qcVars, fnVars>>
    /\ UNCHANGED <<max_retries, engine, configFile, phase_config, phase_results, op, pi,
                   themes, ti, step, attempt, theme_results, previous_results,
                   local_results, report_path, script, outcome, saved, trace,
                   lastExec, delays, summaries, faults>>

\* a variant of run_full_research that returns when the loop is over
AfterPhases_Return == "done"

\* what run_full_research does when the loop is over: the call of
\* generate_summary_report
AfterPhases == "summary"

\* run_full_research: the loop is over, generate_summary_report is called
FullLoopDone ==
    /\ pc = "full_loop"
    /\ pi > Len(phases)
    /\ pc' = AfterPhases
    /\ UNCHANGED <<qcVars, fnVars>>
    /\ UNCHANGED <<max_retries, engine, configFile, phase_config, phase_results, op, pi,
                   phase_name, themes, ti, step, attempt, theme_results,
                   previous_results, local_results, report_path, script, outcome,
                   saved, trace, phaseLog, lastExec, delays, summaries, faults>>

\* generate_summary_report: the generator writes the summary or raises
Summary ==
    /\ pc = "summary"
    /\ summaries' = summaries + 1
    /\ \/ /\ outcome' = "returned"
          /\ faults' = faults
       \/ /\ faults < MaxFaults
          /\ faults' = faults + 1
          /\ outcome' = "raised"
    /\ pc' = "done"
    /\ UNCHANGED <<qcVars, fnVars>>
    /\ UNCHANGED <<max_retries, engine, configFile, phase_config, phase_results, op, pi,
                   phase_name, themes, ti, step, attempt, theme_results,
                   previous_results, local_results, report_path, script, saved,
                   trace, phaseLog, lastExec, delays>>

\* a variant of run_full_research that skips the phase after a raising one
PhaseAfter_Skip(i, how) == IF how = "raised" THEN i + 2 ELSE i + 1

\* a variant of run_full_research that leaves the loop when a phase raises
PhaseAfter_Abort(i, how) == IF how = "raised" THEN Len(phases) + 1 ELSE i + 1

\* run_full_research: the index of the phase that follows phase i, whether
\* run_phase_research returned or raised (`continue`)
PhaseAfter(i, how) == i + 1

\* ---- the end of run_phase_research, seen from its caller ----------------
\* how: "returned" or "raised".  In run_full_research both the normal return
\* (followed by the phase delay) and the except branch go on to the next
\* phase.  The locals of run_phase_research end here.
PhaseEnds(how) ==
    /\ phaseLog' = [phaseLog EXCEPT ![Len(phaseLog)].outcome = how]
    /\ themes' = <<>>
    /\ ti' = 1
    /\ local_results' = EmptyDict
    /\ theme_results' = <<>>
    /\ IF op = "full"
       THEN /\ pi' = PhaseAfter(pi, how)
            /\ pc' = "full_loop"
            /\ UNCHANGED <<op, outcome>>
       ELSE /\ pc' = "done"
            /\ outcome' = how
            /\ UNCHANGED <<op, pi>>

\* run_phase_research: load_phase_config and the lookup of "themes"
PhaseLoad ==
    /\ pc = "phase_load"
    /\ IF configFile = "missing"
       THEN \* load_phase_config raises, caught: return
            PhaseEnds("returned")
       ELSE IF phase_name \notin DOMAIN phase_config
       THEN \* all_phases.get(phase_name, {})["themes"]: KeyError
            PhaseEnds("raised")
       ELSE /\ themes' = phase_config[phase_name]
            /\ ti' = 1
            /\ local_results' = EmptyDict
            /\ pc' = "theme_loop"
            /\ UNCHANGED <<op, pi, outcome, phaseLog, theme_results>>
    /\ UNCHANGED <<qcVars, fnVars>>
    /\ UNCHANGED <<max_retries, engine, configFile, phase_config, phase_results,
                   phase_name, step, attempt, previous_results,
                   report_path, script, saved, trace, lastExec, delays, summaries,
                   faults>>

\* a variant in which theme_results is not emptied at the head of a theme
FreshThemeResults_Stale == theme_results

\* theme_results = [] at the head of a theme
FreshThemeResults == <<>>

\* run_phase_research: head of the theme loop
NextTheme ==
    /\ pc = "theme_loop"
    /\ ti <= Len(themes)
    /\ theme_results' = FreshThemeResults
    /\ step' = 1
    /\ trace' = <<>>
    /\ pc' = "step_loop"
    /\ UNCHANGED <<qcVars, fnVars>>
    /\ UNCHANGED <<max_retries, engine, configFile, phase_config, phase_results, op, pi,
                   phase_name, themes, ti, attempt, previous_results, local_results,
                   report_path, script, outcome, saved, phaseLog, lastExec, delays,
                   summaries, faults>>

\* run_phase_research: the theme loop is over; record and save the phase
SavePhase ==
    /\ pc = "theme_loop"
    /\ ti > Len(themes)
    /\ phase_results' = DictSet(phase_results, phase_name, local_results)
    /\ \/ /\ saved' = DictSet(saved, phase_name, Serializable(local_results))
          /\ faults' = faults
          /\ PhaseEnds("returned")
       \/ \* save_phase_results raises
          /\ faults < MaxFaults
          /\ faults' = faults + 1
          /\ saved' = saved
          /\ PhaseEnds("raised")
    /\ UNCHANGED <<qcVars, fnVars>>
    /\ UNCHANGED <<max_retries, engine, configFile, phase_config, phase_name, step,
                   attempt, previous_results, report_path, script, trace, lastExec,
                   delays, summaries>>

\* ---- the three steps of a theme -----------------------------------------
\* head of `for step in range(1, 4)`: get_previous_results, then the call of
\* _execute_research_with_retry; the engine's behaviour for this execution
\* is fixed here
BeginStep ==
    /\ pc = "step_loop"
    /\ step <= 3
    /\ previous_results' = get_previous_results(phase_name, phase_results)
    /\ attempt' = 0
    /\ delays' = 0
    /\ \E sc \in Scripts :
         /\ script' = sc
         /\ IF Faulty(sc)
            THEN faults < MaxFaults /\ faults' = faults + 1
            ELSE faults' = faults
    /\ pc' = "retry"
    /\ UNCHANGED <<qcVars, fnVars>>
    /\ UNCHANGED <<max_retries, engine, configFile, phase_config, phase_results, op, pi,
                   phase_name, themes, ti, step, theme_results, local_results,
                   report_path, outcome, saved, trace, phaseLog, lastExec, summaries>>

Event(kind, raised) ==
    [kind |-> kind, step |-> step, attempt |-> attempt,
     passed |-> theme_results, raised |-> raised]

\* _execute_research_with_retry: one iteration of the attempt loop
RetryAttempt ==
    /\ pc = "retry"
    /\ attempt < RetryLimit
    /\ LET r == EngineCall(CurTheme, step, previous_results, theme_results, attempt, script)
       IN  /\ trace' = Append(trace, Event("engine", r.raised))
           /\ IF r.raised
              THEN \* except: remember the exception, sleep unless last attempt
                   /\ delays' = IF attempt < max_retries - 1 THEN delays + 1 ELSE delays
                   /\ attempt' = attempt + 1
                   /\ UNCHANGED <<theme_results, step, pc, lastExec>>
              ELSE \* return to the step loop: append, sleep, next step
                   /\ theme_results' = Append(theme_results, r.value)
                   /\ lastExec' = [step |-> step, script |-> script,
                                   calls |-> attempt + 1, delays |-> delays,
                                   outcome |-> "returned", exception |-> None]
                   /\ step' = step + 1
                   /\ pc' = "step_loop"
                   /\ UNCHANGED <<attempt, delays>>
    /\ UNCHANGED <<qcVars, fnVars>>
    /\ UNCHANGED <<max_retries, engine, configFile, phase_config, phase_results, op, pi,
                   phase_name, themes, ti, previous_results, local_results,
                   report_path, script, outcome, saved, phaseLog, summaries, faults>>

\* the step the step loop goes to after a step execution raised
\* (`except Exception: ... continue`)
StepAfterFailure(s) == s + 1

\* last_exception after `attempts` failed attempts: None before the first,
\* then the exception of the latest attempt (attempts are counted from 0)
LastException(attempts) ==
    IF attempts = 0 THEN None
    ELSE Some([type |-> "engine_error", attempt |-> Some(attempts - 1)])

\* `raise last_exception`: raising None is a TypeError
RaiseLast(last_exception) ==
    IF last_exception = None THEN Some([type |-> "TypeError", attempt |-> None])
    ELSE last_exception

\* _execute_research_with_retry: the attempt loop is over, raise
\* last_exception; the step loop catches it and continues
RetryExhausted ==
    /\ pc = "retry"
    /\ attempt >= RetryLimit
    /\ lastExec' = [step |-> step, script |-> script, calls |-> attempt,
                    delays |-> delays, outcome |-> "raised",
                    exception |-> RaiseLast(LastException(attempt))]
    /\ step' = StepAfterFailure(step)
    /\ pc' = "step_loop"
    /\ UNCHANGED <<qcVars, fnVars>>
    /\ UNCHANGED <<max_retries, engine, configFile, phase_config, phase_results, op, pi,
                   phase_name, themes, ti, attempt, theme_results, previous_results,
                   local_results, report_path, script, outcome, saved, trace,
                   phaseLog, delays, summaries, faults>>

\* the step loop is over: go on to the report
StepsDone ==
    /\ pc = "step_loop"
    /\ step > 3
    /\ pc' = "report"
    /\ UNCHANGED <<qcVars, fnVars>>
    /\ UNCHANGED <<max_retries, engine, configFile, phase_config, phase_results, op, pi,
                   phase_name, themes, ti, step, attempt, theme_results,
                   previous_results, local_results, report_path, script, outcome,
                   saved, trace, phaseLog, lastExec, delays, summaries, faults>>

\* ---- report and quality check of a theme --------------------------------
\* a variant of the theme loop that leaves the loop after a theme
ThemeAfter_Leave(i) == Len(themes) + 1

\* the theme loop goes on with the next theme, whether the report and the
\* check of theme i succeeded or the except branch logged their error
ThemeAfter(i) == i + 1

\* the theme is over: next theme of the phase, or the end of
\* run_single_theme.  The locals of the theme's iteration end here.
ThemeEnds ==
    /\ previous_results' = None
    /\ report_path' = None
    /\ script' = NoScript
    /\ lastExec' = NoExec
    /\ step' = 1
    /\ attempt' = 0
    /\ delays' = 0
    /\ UNCHANGED op
    /\ IF op = "single"
       THEN /\ pc' = "done"
            /\ outcome' = "returned"
            /\ themes' = <<>>
            /\ ti' = 1
            /\ theme_results' = <<>>
       ELSE /\ ti' = ThemeAfter(ti)
            /\ pc' = "theme_loop"
            /\ UNCHANGED <<outcome, themes, theme_results>>

\* history: how the report and the quality check of the current theme ended
\* ("recorded" with the step results, the path and the verdict at that time,
\* "report_raised", "quality_raised")
LogTheme(how, entry) ==
    IF op = "single" THEN phaseLog
    ELSE [phaseLog EXCEPT ![Len(phaseLog)].themeLog =
             Append(@, [theme |-> CurTheme, outcome |-> how, entry |-> entry])]

\* report_generator.generate_theme_report returns the path or raises
GenerateReport ==
    /\ pc = "report"
    /\ \/ /\ report_path' = Some(ReportPath(phase_name, CurTheme))
          /\ trace' = Append(trace, Event("report", FALSE))
          /\ faults' = faults
          /\ pc' = "quality"
          /\ UNCHANGED <<op, outcome, themes, ti, theme_results, previous_results,
                         script, lastExec, step, attempt, delays, phaseLog>>
       \/ \* raises: logged, the theme gets no entry
          /\ faults < MaxFaults
          /\ faults' = faults + 1
          /\ trace' = Append(trace, Event("report", TRUE))
          /\ phaseLog' = LogTheme("report_raised", None)
          /\ ThemeEnds
    /\ UNCHANGED <<qcVars, fnVars>>
    /\ UNCHANGED <<max_retries, engine, configFile, phase_config, phase_results, pi,
                   phase_name, local_results, saved, summaries>>

\* the quality check of the theme as a history event
QualityEvent(passed, raised) ==
    [kind |-> "quality", step |-> step, attempt |-> attempt, passed |-> theme_results,
     raised |-> raised, quality_passed |-> passed]

AfterQuality_Regenerate(passed) == IF passed THEN "theme_end" ELSE "report"

\* what follows the quality check: `if quality_result["passed"]` only
\* chooses the log message
AfterQuality(passed) == "theme_end"

\* the entry run_phase_research stores for a theme
ThemeEntry_NoResults(passed) ==
    [results |-> <<>>, report_path |-> report_path[1], quality |-> [passed |-> passed]]

ThemeEntry(passed) ==
    [results |-> theme_results, report_path |-> report_path[1],
     quality |-> [passed |-> passed]]

\* a variant of run_single_theme that records the theme like a phase run
AfterSingleTheme_Recorded(results, p, t, entry) ==
    DictSet(results, p,
            DictSet(IF p \in DOMAIN results THEN results[p] ELSE EmptyDict, t, entry))

\* self.phase_results after the report and the check of run_single_theme:
\* the method logs the theme and the report path and assigns nothing
AfterSingleTheme(results, p, t, entry) == results

\* quality_checker.check_report returns a result (passed or not) or raises;
\* run_phase_research then stores the theme's entry
CheckQuality ==
    /\ pc = "quality"
    /\ \/ \E passed \in BOOLEAN :
            /\ IF passed THEN faults' = faults
               ELSE faults < MaxFaults /\ faults' = faults + 1
            /\ trace' = Append(trace, QualityEvent(passed, FALSE))
            /\ local_results' =
                 IF op = "single" THEN local_results
                 ELSE DictSet(local_results, CurTheme, ThemeEntry(passed))
            /\ phase_results' =
                 IF op = "single"
                 THEN AfterSingleTheme(phase_results, phase_name, CurTheme,
                                       ThemeEntry(passed))
                 ELSE phase_results
            /\ phaseLog' = LogTheme("recorded",
                                    Some([results |-> theme_results,
                                          report_path |-> report_path[1],
                                          passed |-> passed]))
            /\ IF AfterQuality(passed) = "theme_end"
               THEN ThemeEnds
               ELSE /\ pc' = AfterQuality(passed)
                    /\ UNCHANGED <<previous_results, report_path, script, lastExec, step,
                                   attempt, delays, op, outcome, themes, ti, theme_results>>
       \/ /\ faults < MaxFaults
          /\ faults' = faults + 1
          /\ trace' = Append(trace, QualityEvent(FALSE, TRUE))
          /\ phaseLog' = LogTheme("quality_raised", None)
          /\ UNCHANGED <<local_results, phase_results>>
          /\ ThemeEnds
    /\ UNCHANGED <<qcVars, fnVars>>
    /\ UNCHANGED <<max_retries, engine, configFile, phase_config, pi,
                   phase_name, saved, summaries>>

\* ---- run_single_theme ----------------------------------------------------
\* the theme ids run_single_theme is called with for phase p: configured
\* themes of the phase and one more that the configuration does not hold
SingleThemeChoices(p) ==
    LET ids == FirstN(phase_mapping[p], MaxThemes + 1)
    IN  {ids[i] : i \in 1..Len(ids)}

\* run_single_theme is called: load_phase_config and the lookup of the theme
RunSingleTheme ==
    /\ phaseLog' = <<>>
    /\ trace' = <<>>
    /\ UNCHANGED <<summaries, lastExec>>
    /\ op' = "single"
    /\ \E p \in PhaseSet : \E t \in SingleThemeChoices(p) :
         /\ phase_name' = p
         /\ IF configFile = "missing" \/ p \notin DOMAIN phase_config
            THEN \* load_phase_config raises, or KeyError on "themes": re-raised
                 /\ outcome' = "raised"
                 /\ pc' = "done"
                 /\ UNCHANGED <<themes, ti, theme_results, step>>
            ELSE IF t \notin {phase_config[p][i] : i \in 1..Len(phase_config[p])}
            THEN \* theme not found: return
                 /\ outcome' = "returned"
                 /\ pc' = "done"
                 /\ UNCHANGED <<themes, ti, theme_results, step>>
            ELSE /\ themes' = <<t>>
                 /\ ti' = 1
                 /\ theme_results' = FreshThemeResults
                 /\ step' = 1
                 /\ pc' = "step_loop"
                 /\ outcome' = "none"
    /\ UNCHANGED <<max_retries, engine, configFile, phase_config, phase_results, pi,
                   attempt, previous_results, local_results, report_path, script,
                   saved, delays, faults>>

\* run_single_theme is called on a new controller
StartSingle ==
    /\ pc = "idle"
    /\ RunSingleTheme
    /\ UNCHANGED <<qcVars, fnVars>>

Next ==
    \/ StartFull
    \/ StartPhase
    \/ StartSingle
    \/ FullNextPhase
    \/ FullLoopDone
    \/ Summary
    \/ PhaseLoad
    \/ NextTheme
    \/ SavePhase
    \/ BeginStep
    \/ RetryAttempt
    \/ RetryExhausted
    \/ StepsDone
    \/ GenerateReport
    \/ CheckQuality

Spec == Init /\ [][Next]_vars

(***************************************************************************)
(* Properties of the controller and the engine.                            *)
(***************************************************************************)
Last(q) == q[Len(q)]

\* the controller is inside the step loop, the report or the quality check
\* of the current theme
InTheme == pc \in {"step_loop", "retry", "report", "quality"}

EngineEvents == {i \in 1..Len(trace) : trace[i].kind = "engine"}

StepsOf(results) == [i \in 1..Len(results) |-> results[i].step]

\* the phases of a full run, in the order the specification gives
ExpectedOrder == <<"phase_1", "phase_2", "phase_3", "phase_4", "phase_5",
                   "phase_6", "phase_7", "phase_8", "final_phase">>

\* C1: with max_retries N >= 1 and an engine that raises on its first k < N
\* calls of a step and succeeds on call k+1, _execute_research_with_retry
\* returns that successful result, without raising, after exactly k+1
\* engine calls.
C1_RetryReturnsFirstSuccess ==
    (InTheme /\ engine = "stub" /\ lastExec.outcome # "none"
       /\ max_retries >= 1 /\ lastExec.script.raises < max_retries)
    => /\ lastExec.outcome = "returned"
       /\ lastExec.calls = lastExec.script.raises + 1
       /\ Cardinality({i \in EngineEvents : trace[i].step = lastExec.step})
            = lastExec.script.raises + 1
       /\ theme_results # <<>>
       /\ Last(theme_results).step = lastExec.step
       /\ Last(theme_results).theme_id = CurTheme
       /\ Last(theme_results).error = None

\* C1 witness: the engine raised twice and succeeded on the third call
\* with max_retries = 3
C1_Witness ==
    /\ InTheme /\ engine = "stub" /\ max_retries = 3
    /\ lastExec.script.raises = 2
    /\ lastExec.outcome = "returned"
    /\ lastExec.calls = 3

\* C2: once all max_retries attempts of a step have failed, the engine
\* executes no later step of that theme.
C2_FailedStepAbortsTheme ==
    InTheme =>
      \A i, j \in EngineEvents :
        (trace[i].raised /\ trace[i].attempt = max_retries - 1 /\ i < j)
        => trace[j].step <= trace[i].step

\* C3: within one theme the engine is invoked for the steps in the order
\* 1, 2, 3; every attempt of a step comes after all attempts of the earlier
\* steps, and the list passed to a call holds only results of earlier steps
\* of the same theme.
C3_StepsInOrder ==
    InTheme =>
      /\ \A i \in EngineEvents :
           /\ trace[i].step \in 1..3
           /\ \A j \in EngineEvents :
                i < j => \/ trace[i].step < trace[j].step
                         \/ /\ trace[i].step = trace[j].step
                            /\ trace[i].attempt < trace[j].attempt
                            /\ trace[i].raised
           /\ \A n \in 1..Len(trace[i].passed) :
                /\ trace[i].passed[n].theme_id = CurTheme
                /\ trace[i].passed[n].step < trace[i].step
      /\ (pc \in {"report", "quality"} /\ max_retries >= 1)
           => {trace[i].step : i \in EngineEvents} = {1, 2, 3}

\* C3 witness: the second theme of a phase reached its report after engine
\* calls for all three steps, one of them retried
C3_Witness ==
    /\ pc = "report" /\ ti = 2
    /\ {trace[i].step : i \in EngineEvents} = {1, 2, 3}
    /\ \E i \in EngineEvents : trace[i].raised
    /\ \E i \in EngineEvents : trace[i].passed # <<>>

\* C4: the list of StepResults handed to the report generator and stored in
\* the phase results has the step numbers 1, 2, 3 in that order.
C4_ResultsAreSteps123 ==
    /\ pc \in {"report", "quality"} => StepsOf(theme_results) = <<1, 2, 3>>
    /\ \A t \in DOMAIN local_results : StepsOf(local_results[t].results) = <<1, 2, 3>>
    /\ \A p \in DOMAIN phase_results : \A t \in DOMAIN phase_results[p] :
         StepsOf(phase_results[p][t].results) = <<1, 2, 3>>

\* C5: run_full_research attempts the nine phases in the fixed order, each
\* exactly once; a phase starts only after the previous one has ended and no
\* earlier phase is entered again.
C5_PhasesInOrder ==
    op = "full" =>
      /\ Len(phaseLog) <= 9
      /\ \A i \in 1..Len(phaseLog) :
           /\ phaseLog[i].phase = ExpectedOrder[i]
           /\ i < Len(phaseLog) => phaseLog[i].outcome # "running"
      /\ pc \in {"phase_load", "theme_loop"} \cup {"step_loop", "retry", "report", "quality"}
           => /\ phaseLog # <<>>
              /\ Last(phaseLog).outcome = "running"
              /\ Last(phaseLog).phase = phase_name
      /\ pc \in {"summary", "done"} => Len(phaseLog) = 9

\* C5 witness: a full run is over, phases with themes were processed
C5_Witness ==
    /\ op = "full" /\ pc = "done"
    /\ Len(phaseLog) = 9
    /\ DOMAIN phase_results = {"phase_1", "phase_2", "final_phase"}

\* C6: in a full run, a phase for which run_phase_research raises is
\* skipped; every later phase is still executed in order and the summary
\* report generation is still attempted.
C6_RaisingPhaseIsSkipped ==
    (op = "full" /\ \E i \in 1..Len(phaseLog) : phaseLog[i].outcome = "raised")
    => /\ \A i \in 1..Len(phaseLog) : phaseLog[i].phase = ExpectedOrder[i]
       /\ pc = "full_loop" => pi = Len(phaseLog) + 1
       /\ pc = "summary" => Len(phaseLog) = 9 /\ summaries = 0
       /\ pc = "done" => Len(phaseLog) = 9 /\ summaries = 1

\* C6 witness: a full run is over in which a phase absent from the
\* configuration and a phase whose results could not be saved both raised
C6_Witness ==
    /\ op = "full" /\ pc = "done" /\ summaries = 1
    /\ \E i \in 1..Len(phaseLog) :
         phaseLog[i].outcome = "raised" /\ phaseLog[i].phase \notin DOMAIN phase_config
    /\ \E i \in 1..Len(phaseLog) :
         phaseLog[i].outcome = "raised" /\ phaseLog[i].phase \in DOMAIN phase_config

\* the numbered phase before each of phase_2 .. phase_8
Predecessor(p) ==
    CASE p = "phase_2" -> "phase_1" [] p = "phase_3" -> "phase_2"
      [] p = "phase_4" -> "phase_3" [] p = "phase_5" -> "phase_4"
      [] p = "phase_6" -> "phase_5" [] p = "phase_7" -> "phase_6"
      [] p = "phase_8" -> "phase_7"

\* C7: get_previous_results returns the entire in-memory results for
\* final_phase, none for phase_1, and for phase_k (2 <= k <= 8) the
\* recorded results of phase_(k-1) only, none if there are none.
C7_PreviousResults ==
    pc = "retry" =>
      CASE phase_name = "final_phase" ->
             previous_results # None /\ previous_results[1] = phase_results
        [] phase_name = "phase_1" -> previous_results = None
        [] OTHER ->
             IF Predecessor(phase_name) \in DOMAIN phase_results
             THEN /\ previous_results # None
                  /\ previous_results[1] = phase_results[Predecessor(phase_name)]
             ELSE previous_results = None

\* C7 witness: a step of phase_2 runs with the recorded results of phase_1
C7_Witness ==
    /\ pc = "retry" /\ phase_name = "phase_2"
    /\ "phase_1" \in DOMAIN phase_results
    /\ DOMAIN phase_results["phase_1"] = {"A", "B"}
    /\ previous_results = Some(phase_results["phase_1"])

\* C8: ResearchEngine.execute_research never propagates an exception: when
\* a stage of it fails it returns a StepResult with the requested theme_id
\* and step, an error string as result, the error field set and no source.
C8_EngineNeverRaises ==
    (InTheme /\ engine = "real")
    => /\ \A i \in EngineEvents : ~trace[i].raised
       /\ max_retries >= 1 => lastExec.outcome # "raised"
       /\ (lastExec.outcome = "returned" /\ lastExec.script.stage # "none")
            => /\ theme_results # <<>>
               /\ Last(theme_results).theme_id = CurTheme
               /\ Last(theme_results).step = lastExec.step
               /\ Last(theme_results).result = "error_string"
               /\ Last(theme_results).error # None
               /\ Last(theme_results).sources = <<>>

\* C8 witness: source extraction failed inside the engine and the step
\* returned a degraded result
C8_Witness ==
    /\ InTheme /\ engine = "real"
    /\ lastExec.outcome = "returned"
    /\ lastExec.script.stage = "extract_sources"
    /\ Last(theme_results).error # None

\* C9: a degraded result (a failure inside the engine) is recorded for a
\* step only after the controller has invoked the engine max_retries times
\* for that step.
C9_DegradedAfterRetries ==
    (InTheme /\ lastExec.outcome = "returned" /\ theme_results # <<>>
       /\ Last(theme_results).step = lastExec.step
       /\ Last(theme_results).error # None)
    => lastExec.calls = max_retries

(***************************************************************************)
(* Quality checker: QualityChecker.check_report.                           *)
(*                                                                         *)
(* A report text is a sequence of text blocks joined by newlines.  The     *)
(* blocks are                                                              *)
(*   head        "# 市場戦略レポート\n## エグゼクティブサマリー\n## 目次"        *)
(*   toc_items   "[現状分析](#現状分析) [戦略提言](#戦略提言)                  *)
(*                [実行計画](#実行計画) [参考文献](#参考文献)"  (one line)      *)
(*   current     "### 現状分析"                                             *)
(*   references  "## 参考文献"                                              *)
(*   url         "https://example.com/report"                              *)
(*   citation    "[1] 出典 https://example.com/data"                        *)
(*   bullets     five lines "- 顧客 20%"                                    *)
(*   table       "| KPI | ROI | --- |"                                     *)
(*   text        "plain text"                                              *)
(*   notes       ten lines "ab", "c", "d", "e", "f", "g", "h", "i", "j", "k"*)
(* and the operators below give what the checker's patterns find in them.  *)
(***************************************************************************)
BlockKinds == {"head", "toc_items", "current", "references", "url", "citation",
               "bullets", "table", "text", "notes"}

Contents == UNION {[1..n -> BlockKinds] : n \in 0..MaxBlocks}

RECURSIVE SumSeq(_)
\* the sum of a sequence of numbers, by halves
SumSeq(ns) ==
    IF ns = <<>> THEN 0
    ELSE IF Len(ns) = 1 THEN ns[1]
    ELSE LET h == Len(ns) \div 2
         IN  SumSeq(SubSeq(ns, 1, h)) + SumSeq(SubSeq(ns, h + 1, Len(ns)))

Present(content) == {content[i] : i \in 1..Len(content)}

(***************************************************************************)
(* The lines of a generated report.  For each line: its length, and what   *)
(* the patterns of the quality checker find in it (jp, en: word matches;   *)
(* hashes: the number of # it starts with, -1 for a blank line).  The      *)
(* texts of the lines of the template are those of create_report_content   *)
(* and of the tables of its helpers; title_, project_, phase_, date_ and   *)
(* company_ lines are the header for the inputs explored; ref_n_url_x is   *)
(* the reference line "n. <url x>".  Lines of research results:            *)
(*   plain         "plain text"                                            *)
(*   keyword       "重要: 市場の結論"                                        *)
(*   keyword_huge  "重要" followed by 49500 letters                         *)
(*   long          30000 letters                                           *)
(*   bullet        "- 顧客 20%"                                             *)
(* and summary_keyword, summary_keyword_huge are "- " and that line.       *)
(***************************************************************************)
ReportLines ==
    ("blank" :> [chars |-> 0, jp |-> 0, en |-> 0, urls |-> {}, cites |-> {}, hashes |-> -1,
        levels |-> {}, sections |-> {}, bullets |-> 0, numbers |-> 0, terms |-> {},
        pipe |-> FALSE, dashes |-> FALSE, toc |-> FALSE, summary |-> FALSE])
    @@
    ("rule" :> [chars |-> 3, jp |-> 0, en |-> 0, urls |-> {}, cites |-> {}, hashes |-> 0,
        levels |-> {}, sections |-> {}, bullets |-> 0, numbers |-> 0, terms |-> {},
        pipe |-> FALSE, dashes |-> TRUE, toc |-> FALSE, summary |-> FALSE])
    @@
    ("title_SWOT" :> [chars |-> 6, jp |-> 0, en |-> 1, urls |-> {}, cites |-> {}, hashes |-> 1,
        levels |-> {1}, sections |-> {}, bullets |-> 0, numbers |-> 0, terms |-> {},
        pipe |-> FALSE, dashes |-> FALSE, toc |-> FALSE, summary |-> FALSE])
    @@
    ("title_AB" :> [chars |-> 5, jp |-> 0, en |-> 2, urls |-> {}, cites |-> {}, hashes |-> 1,
        levels |-> {1}, sections |-> {}, bullets |-> 0, numbers |-> 0, terms |-> {},
        pipe |-> FALSE, dashes |-> FALSE, toc |-> FALSE, summary |-> FALSE])
    @@
    ("project_proj" :> [chars |-> 18, jp |-> 1, en |-> 1, urls |-> {}, cites |-> {}, hashes |-> 0,
        levels |-> {}, sections |-> {}, bullets |-> 0, numbers |-> 0, terms |-> {},
        pipe |-> FALSE, dashes |-> FALSE, toc |-> FALSE, summary |-> FALSE])
    @@
    ("project_demo" :> [chars |-> 18, jp |-> 1, en |-> 1, urls |-> {}, cites |-> {}, hashes |-> 0,
        levels |-> {}, sections |-> {}, bullets |-> 0, numbers |-> 0, terms |-> {},
        pipe |-> FALSE, dashes |-> FALSE, toc |-> FALSE, summary |-> FALSE])
    @@
    ("phase_line" :> [chars |-> 33, jp |-> 3, en |-> 0, urls |-> {}, cites |-> {}, hashes |-> 0,
        levels |-> {}, sections |-> {}, bullets |-> 0, numbers |-> 0, terms |-> {"analysis"},
        pipe |-> FALSE, dashes |-> FALSE, toc |-> FALSE, summary |-> FALSE])
    @@
    ("date_line" :> [chars |-> 22, jp |-> 4, en |-> 0, urls |-> {}, cites |-> {}, hashes |-> 0,
        levels |-> {}, sections |-> {}, bullets |-> 0, numbers |-> 0, terms |-> {},
        pipe |-> FALSE, dashes |-> FALSE, toc |-> FALSE, summary |-> FALSE])
    @@
    ("company_line" :> [chars |-> 13, jp |-> 1, en |-> 1, urls |-> {}, cites |-> {}, hashes |-> 0,
        levels |-> {}, sections |-> {}, bullets |-> 0, numbers |-> 0, terms |-> {},
        pipe |-> FALSE, dashes |-> FALSE, toc |-> FALSE, summary |-> FALSE])
    @@
    ("h_summary" :> [chars |-> 14, jp |-> 1, en |-> 0, urls |-> {}, cites |-> {}, hashes |-> 2,
        levels |-> {2}, sections |-> {}, bullets |-> 0, numbers |-> 0, terms |-> {},
        pipe |-> FALSE, dashes |-> FALSE, toc |-> FALSE, summary |-> TRUE])
    @@
    ("summary_default" :> [chars |-> 9, jp |-> 1, en |-> 0, urls |-> {}, cites |-> {}, hashes |-> 0,
        levels |-> {}, sections |-> {}, bullets |-> 0, numbers |-> 0, terms |-> {},
        pipe |-> FALSE, dashes |-> FALSE, toc |-> FALSE, summary |-> FALSE])
    @@
    ("h_toc" :> [chars |-> 5, jp |-> 1, en |-> 0, urls |-> {}, cites |-> {}, hashes |-> 2,
        levels |-> {2}, sections |-> {}, bullets |-> 0, numbers |-> 0, terms |-> {},
        pipe |-> FALSE, dashes |-> FALSE, toc |-> TRUE, summary |-> FALSE])
    @@
    ("toc_1" :> [chars |-> 16, jp |-> 2, en |-> 0, urls |-> {}, cites |-> {}, hashes |-> 0,
        levels |-> {}, sections |-> {"current_analysis"}, bullets |-> 0, numbers |-> 0, terms |-> {"analysis"},
        pipe |-> FALSE, dashes |-> FALSE, toc |-> FALSE, summary |-> FALSE])
    @@
    ("toc_2" :> [chars |-> 16, jp |-> 2, en |-> 0, urls |-> {}, cites |-> {}, hashes |-> 0,
        levels |-> {}, sections |-> {"strategy_proposal"}, bullets |-> 0, numbers |-> 0, terms |-> {"strategy"},
        pipe |-> FALSE, dashes |-> FALSE, toc |-> FALSE, summary |-> FALSE])
    @@
    ("toc_3" :> [chars |-> 16, jp |-> 2, en |-> 0, urls |-> {}, cites |-> {}, hashes |-> 0,
        levels |-> {}, sections |-> {"action_plan"}, bullets |-> 0, numbers |-> 0, terms |-> {},
        pipe |-> FALSE, dashes |-> FALSE, toc |-> FALSE, summary |-> FALSE])
    @@
    ("toc_4" :> [chars |-> 16, jp |-> 2, en |-> 0, urls |-> {}, cites |-> {}, hashes |-> 0,
        levels |-> {}, sections |-> {"references"}, bullets |-> 0, numbers |-> 0, terms |-> {},
        pipe |-> FALSE, dashes |-> FALSE, toc |-> FALSE, summary |-> FALSE])
    @@
    ("h_current" :> [chars |-> 7, jp |-> 1, en |-> 0, urls |-> {}, cites |-> {}, hashes |-> 2,
        levels |-> {2}, sections |-> {"current_analysis"}, bullets |-> 0, numbers |-> 0, terms |-> {"analysis"},
        pipe |-> FALSE, dashes |-> FALSE, toc |-> FALSE, summary |-> FALSE])
    @@
    ("h_findings" :> [chars |-> 11, jp |-> 1, en |-> 0, urls |-> {}, cites |-> {}, hashes |-> 3,
        levels |-> {3}, sections |-> {}, bullets |-> 0, numbers |-> 0, terms |-> {},
        pipe |-> FALSE, dashes |-> FALSE, toc |-> FALSE, summary |-> FALSE])
    @@
    ("findings_default" :> [chars |-> 10, jp |-> 1, en |-> 0, urls |-> {}, cites |-> {}, hashes |-> 0,
        levels |-> {}, sections |-> {}, bullets |-> 1, numbers |-> 0, terms |-> {},
        pipe |-> FALSE, dashes |-> FALSE, toc |-> FALSE, summary |-> FALSE])
    @@
    ("h_charts" :> [chars |-> 8, jp |-> 1, en |-> 0, urls |-> {}, cites |-> {}, hashes |-> 3,
        levels |-> {3}, sections |-> {}, bullets |-> 0, numbers |-> 0, terms |-> {"analysis"},
        pipe |-> FALSE, dashes |-> FALSE, toc |-> FALSE, summary |-> FALSE])
    @@
    ("h_strategy" :> [chars |-> 7, jp |-> 1, en |-> 0, urls |-> {}, cites |-> {}, hashes |-> 2,
        levels |-> {2}, sections |-> {"strategy_proposal"}, bullets |-> 0, numbers |-> 0, terms |-> {"strategy"},
        pipe |-> FALSE, dashes |-> FALSE, toc |-> FALSE, summary |-> FALSE])
    @@
    ("h_comparison" :> [chars |-> 13, jp |-> 1, en |-> 0, urls |-> {}, cites |-> {}, hashes |-> 3,
        levels |-> {3}, sections |-> {}, bullets |-> 0, numbers |-> 0, terms |-> {"strategy"},
        pipe |-> FALSE, dashes |-> FALSE, toc |-> FALSE, summary |-> FALSE])
    @@
    ("no_strategy" :> [chars |-> 12, jp |-> 1, en |-> 0, urls |-> {}, cites |-> {}, hashes |-> 0,
        levels |-> {}, sections |-> {}, bullets |-> 0, numbers |-> 0, terms |-> {"strategy"},
        pipe |-> FALSE, dashes |-> FALSE, toc |-> FALSE, summary |-> FALSE])
    @@
    ("cmp_head" :> [chars |-> 40, jp |-> 5, en |-> 0, urls |-> {}, cites |-> {}, hashes |-> 0,
        levels |-> {}, sections |-> {}, bullets |-> 0, numbers |-> 0, terms |-> {"strategy"},
        pipe |-> TRUE, dashes |-> FALSE, toc |-> FALSE, summary |-> FALSE])
    @@
    ("cmp_sep" :> [chars |-> 63, jp |-> 0, en |-> 0, urls |-> {}, cites |-> {}, hashes |-> 0,
        levels |-> {}, sections |-> {}, bullets |-> 0, numbers |-> 0, terms |-> {},
        pipe |-> TRUE, dashes |-> TRUE, toc |-> FALSE, summary |-> FALSE])
    @@
    ("cmp_row1" :> [chars |-> 33, jp |-> 4, en |-> 0, urls |-> {}, cites |-> {}, hashes |-> 0,
        levels |-> {}, sections |-> {}, bullets |-> 0, numbers |-> 0, terms |-> {},
        pipe |-> TRUE, dashes |-> FALSE, toc |-> FALSE, summary |-> FALSE])
    @@
    ("cmp_row2" :> [chars |-> 31, jp |-> 4, en |-> 0, urls |-> {}, cites |-> {}, hashes |-> 0,
        levels |-> {}, sections |-> {}, bullets |-> 0, numbers |-> 0, terms |-> {},
        pipe |-> TRUE, dashes |-> FALSE, toc |-> FALSE, summary |-> FALSE])
    @@
    ("cmp_row3" :> [chars |-> 34, jp |-> 4, en |-> 0, urls |-> {}, cites |-> {}, hashes |-> 0,
        levels |-> {}, sections |-> {}, bullets |-> 0, numbers |-> 0, terms |-> {},
        pipe |-> TRUE, dashes |-> FALSE, toc |-> FALSE, summary |-> FALSE])
    @@
    ("h_plan" :> [chars |-> 7, jp |-> 1, en |-> 0, urls |-> {}, cites |-> {}, hashes |-> 2,
        levels |-> {2}, sections |-> {"action_plan"}, bullets |-> 0, numbers |-> 0, terms |-> {},
        pipe |-> FALSE, dashes |-> FALSE, toc |-> FALSE, summary |-> FALSE])
    @@
    ("h_action" :> [chars |-> 12, jp |-> 1, en |-> 0, urls |-> {}, cites |-> {}, hashes |-> 3,
        levels |-> {3}, sections |-> {}, bullets |-> 0, numbers |-> 0, terms |-> {},
        pipe |-> FALSE, dashes |-> FALSE, toc |-> FALSE, summary |-> FALSE])
    @@
    ("no_plan" :> [chars |-> 14, jp |-> 1, en |-> 0, urls |-> {}, cites |-> {}, hashes |-> 0,
        levels |-> {}, sections |-> {"action_plan"}, bullets |-> 0, numbers |-> 0, terms |-> {},
        pipe |-> FALSE, dashes |-> FALSE, toc |-> FALSE, summary |-> FALSE])
    @@
    ("act_head" :> [chars |-> 30, jp |-> 5, en |-> 0, urls |-> {}, cites |-> {}, hashes |-> 0,
        levels |-> {}, sections |-> {}, bullets |-> 0, numbers |-> 0, terms |-> {},
        pipe |-> TRUE, dashes |-> FALSE, toc |-> FALSE, summary |-> FALSE])
    @@
    ("act_sep" :> [chars |-> 42, jp |-> 0, en |-> 0, urls |-> {}, cites |-> {}, hashes |-> 0,
        levels |-> {}, sections |-> {}, bullets |-> 0, numbers |-> 0, terms |-> {},
        pipe |-> TRUE, dashes |-> TRUE, toc |-> FALSE, summary |-> FALSE])
    @@
    ("act_row1" :> [chars |-> 43, jp |-> 4, en |-> 0, urls |-> {}, cites |-> {}, hashes |-> 0,
        levels |-> {}, sections |-> {}, bullets |-> 0, numbers |-> 1, terms |-> {"market"},
        pipe |-> TRUE, dashes |-> FALSE, toc |-> FALSE, summary |-> FALSE])
    @@
    ("act_row2" :> [chars |-> 42, jp |-> 4, en |-> 0, urls |-> {}, cites |-> {}, hashes |-> 0,
        levels |-> {}, sections |-> {}, bullets |-> 0, numbers |-> 1, terms |-> {},
        pipe |-> TRUE, dashes |-> FALSE, toc |-> FALSE, summary |-> FALSE])
    @@
    ("act_row3" :> [chars |-> 38, jp |-> 4, en |-> 0, urls |-> {}, cites |-> {}, hashes |-> 0,
        levels |-> {}, sections |-> {}, bullets |-> 0, numbers |-> 1, terms |-> {},
        pipe |-> TRUE, dashes |-> FALSE, toc |-> FALSE, summary |-> FALSE])
    @@
    ("h_kpi" :> [chars |-> 9, jp |-> 1, en |-> 0, urls |-> {}, cites |-> {}, hashes |-> 3,
        levels |-> {3}, sections |-> {}, bullets |-> 0, numbers |-> 0, terms |-> {"KPI"},
        pipe |-> FALSE, dashes |-> FALSE, toc |-> FALSE, summary |-> FALSE])
    @@
    ("no_kpi" :> [chars |-> 13, jp |-> 1, en |-> 0, urls |-> {}, cites |-> {}, hashes |-> 0,
        levels |-> {}, sections |-> {}, bullets |-> 0, numbers |-> 0, terms |-> {"KPI"},
        pipe |-> FALSE, dashes |-> FALSE, toc |-> FALSE, summary |-> FALSE])
    @@
    ("kpi_head" :> [chars |-> 30, jp |-> 4, en |-> 1, urls |-> {}, cites |-> {}, hashes |-> 0,
        levels |-> {}, sections |-> {}, bullets |-> 0, numbers |-> 0, terms |-> {"KPI"},
        pipe |-> TRUE, dashes |-> FALSE, toc |-> FALSE, summary |-> FALSE])
    @@
    ("kpi_sep" :> [chars |-> 41, jp |-> 0, en |-> 0, urls |-> {}, cites |-> {}, hashes |-> 0,
        levels |-> {}, sections |-> {}, bullets |-> 0, numbers |-> 0, terms |-> {},
        pipe |-> TRUE, dashes |-> TRUE, toc |-> FALSE, summary |-> FALSE])
    @@
    ("kpi_row1" :> [chars |-> 29, jp |-> 4, en |-> 0, urls |-> {}, cites |-> {}, hashes |-> 0,
        levels |-> {}, sections |-> {}, bullets |-> 0, numbers |-> 3, terms |-> {},
        pipe |-> TRUE, dashes |-> FALSE, toc |-> FALSE, summary |-> FALSE])
    @@
    ("kpi_row2" :> [chars |-> 30, jp |-> 4, en |-> 0, urls |-> {}, cites |-> {}, hashes |-> 0,
        levels |-> {}, sections |-> {}, bullets |-> 0, numbers |-> 3, terms |-> {"customer"},
        pipe |-> TRUE, dashes |-> FALSE, toc |-> FALSE, summary |-> FALSE])
    @@
    ("kpi_row3" :> [chars |-> 29, jp |-> 2, en |-> 0, urls |-> {}, cites |-> {}, hashes |-> 0,
        levels |-> {}, sections |-> {}, bullets |-> 0, numbers |-> 1, terms |-> {},
        pipe |-> TRUE, dashes |-> FALSE, toc |-> FALSE, summary |-> FALSE])
    @@
    ("h_references" :> [chars |-> 7, jp |-> 1, en |-> 0, urls |-> {}, cites |-> {}, hashes |-> 2,
        levels |-> {2}, sections |-> {"references"}, bullets |-> 0, numbers |-> 0, terms |-> {},
        pipe |-> FALSE, dashes |-> FALSE, toc |-> FALSE, summary |-> FALSE])
    @@
    ("no_references" :> [chars |-> 11, jp |-> 1, en |-> 0, urls |-> {}, cites |-> {}, hashes |-> 0,
        levels |-> {}, sections |-> {"references"}, bullets |-> 0, numbers |-> 0, terms |-> {},
        pipe |-> FALSE, dashes |-> FALSE, toc |-> FALSE, summary |-> FALSE])
    @@
    ("ref_1_url_a" :> [chars |-> 22, jp |-> 0, en |-> 4, urls |-> {"https://a.example/x"}, cites |-> {}, hashes |-> 0,
        levels |-> {}, sections |-> {}, bullets |-> 0, numbers |-> 0, terms |-> {},
        pipe |-> FALSE, dashes |-> FALSE, toc |-> FALSE, summary |-> FALSE])
    @@
    ("ref_1_url_b" :> [chars |-> 22, jp |-> 0, en |-> 4, urls |-> {"https://b.example/y"}, cites |-> {}, hashes |-> 0,
        levels |-> {}, sections |-> {}, bullets |-> 0, numbers |-> 0, terms |-> {},
        pipe |-> FALSE, dashes |-> FALSE, toc |-> FALSE, summary |-> FALSE])
    @@
    ("ref_2_url_a" :> [chars |-> 22, jp |-> 0, en |-> 4, urls |-> {"https://a.example/x"}, cites |-> {}, hashes |-> 0,
        levels |-> {}, sections |-> {}, bullets |-> 0, numbers |-> 0, terms |-> {},
        pipe |-> FALSE, dashes |-> FALSE, toc |-> FALSE, summary |-> FALSE])
    @@
    ("ref_2_url_b" :> [chars |-> 22, jp |-> 0, en |-> 4, urls |-> {"https://b.example/y"}, cites |-> {}, hashes |-> 0,
        levels |-> {}, sections |-> {}, bullets |-> 0, numbers |-> 0, terms |-> {},
        pipe |-> FALSE, dashes |-> FALSE, toc |-> FALSE, summary |-> FALSE])
    @@
    ("h_appendix" :> [chars |-> 5, jp |-> 1, en |-> 0, urls |-> {}, cites |-> {}, hashes |-> 2,
        levels |-> {2}, sections |-> {}, bullets |-> 0, numbers |-> 0, terms |-> {},
        pipe |-> FALSE, dashes |-> FALSE, toc |-> FALSE, summary |-> FALSE])
    @@
    ("h_method" :> [chars |-> 8, jp |-> 1, en |-> 0, urls |-> {}, cites |-> {}, hashes |-> 3,
        levels |-> {3}, sections |-> {}, bullets |-> 0, numbers |-> 0, terms |-> {},
        pipe |-> FALSE, dashes |-> FALSE, toc |-> FALSE, summary |-> FALSE])
    @@
    ("method_1" :> [chars |-> 19, jp |-> 1, en |-> 2, urls |-> {}, cites |-> {}, hashes |-> 0,
        levels |-> {}, sections |-> {}, bullets |-> 1, numbers |-> 0, terms |-> {},
        pipe |-> FALSE, dashes |-> FALSE, toc |-> FALSE, summary |-> FALSE])
    @@
    ("method_2" :> [chars |-> 17, jp |-> 1, en |-> 0, urls |-> {}, cites |-> {}, hashes |-> 0,
        levels |-> {}, sections |-> {}, bullets |-> 1, numbers |-> 0, terms |-> {},
        pipe |-> FALSE, dashes |-> FALSE, toc |-> FALSE, summary |-> FALSE])
    @@
    ("method_3" :> [chars |-> 27, jp |-> 4, en |-> 0, urls |-> {}, cites |-> {}, hashes |-> 0,
        levels |-> {}, sections |-> {"action_plan", "current_analysis"}, bullets |-> 1, numbers |-> 0, terms |-> {"analysis", "strategy"},
        pipe |-> FALSE, dashes |-> FALSE, toc |-> FALSE, summary |-> FALSE])
    @@
    ("h_assurance" :> [chars |-> 8, jp |-> 1, en |-> 0, urls |-> {}, cites |-> {}, hashes |-> 3,
        levels |-> {3}, sections |-> {}, bullets |-> 0, numbers |-> 0, terms |-> {},
        pipe |-> FALSE, dashes |-> FALSE, toc |-> FALSE, summary |-> FALSE])
    @@
    ("assurance_1" :> [chars |-> 21, jp |-> 2, en |-> 0, urls |-> {}, cites |-> {}, hashes |-> 0,
        levels |-> {}, sections |-> {}, bullets |-> 1, numbers |-> 0, terms |-> {},
        pipe |-> FALSE, dashes |-> FALSE, toc |-> FALSE, summary |-> FALSE])
    @@
    ("assurance_2" :> [chars |-> 14, jp |-> 1, en |-> 0, urls |-> {}, cites |-> {}, hashes |-> 0,
        levels |-> {}, sections |-> {}, bullets |-> 1, numbers |-> 0, terms |-> {"analysis"},
        pipe |-> FALSE, dashes |-> FALSE, toc |-> FALSE, summary |-> FALSE])
    @@
    ("assurance_3" :> [chars |-> 14, jp |-> 1, en |-> 0, urls |-> {}, cites |-> {}, hashes |-> 0,
        levels |-> {}, sections |-> {}, bullets |-> 1, numbers |-> 0, terms |-> {},
        pipe |-> FALSE, dashes |-> FALSE, toc |-> FALSE, summary |-> FALSE])
    @@
    ("footer" :> [chars |-> 56, jp |-> 2, en |-> 4, urls |-> {}, cites |-> {}, hashes |-> 0,
        levels |-> {}, sections |-> {}, bullets |-> 0, numbers |-> 0, terms |-> {},
        pipe |-> FALSE, dashes |-> FALSE, toc |-> FALSE, summary |-> FALSE])
    @@
    ("truncation_marker" :> [chars |-> 19, jp |-> 1, en |-> 0, urls |-> {}, cites |-> {}, hashes |-> 0,
        levels |-> {}, sections |-> {}, bullets |-> 0, numbers |-> 0, terms |-> {},
        pipe |-> FALSE, dashes |-> FALSE, toc |-> FALSE, summary |-> FALSE])
    @@
    ("plain" :> [chars |-> 10, jp |-> 0, en |-> 2, urls |-> {}, cites |-> {}, hashes |-> 0,
        levels |-> {}, sections |-> {}, bullets |-> 0, numbers |-> 0, terms |-> {},
        pipe |-> FALSE, dashes |-> FALSE, toc |-> FALSE, summary |-> FALSE])
    @@
    ("keyword" :> [chars |-> 9, jp |-> 2, en |-> 0, urls |-> {}, cites |-> {}, hashes |-> 0,
        levels |-> {}, sections |-> {}, bullets |-> 0, numbers |-> 0, terms |-> {"market"},
        pipe |-> FALSE, dashes |-> FALSE, toc |-> FALSE, summary |-> FALSE])
    @@
    ("keyword_huge" :> [chars |-> 49502, jp |-> 1, en |-> 0, urls |-> {}, cites |-> {}, hashes |-> 0,
        levels |-> {}, sections |-> {}, bullets |-> 0, numbers |-> 0, terms |-> {},
        pipe |-> FALSE, dashes |-> FALSE, toc |-> FALSE, summary |-> FALSE])
    @@
    ("long" :> [chars |-> 30000, jp |-> 0, en |-> 1, urls |-> {}, cites |-> {}, hashes |-> 0,
        levels |-> {}, sections |-> {}, bullets |-> 0, numbers |-> 0, terms |-> {},
        pipe |-> FALSE, dashes |-> FALSE, toc |-> FALSE, summary |-> FALSE])
    @@
    ("bullet" :> [chars |-> 8, jp |-> 1, en |-> 0, urls |-> {}, cites |-> {}, hashes |-> 0,
        levels |-> {}, sections |-> {}, bullets |-> 1, numbers |-> 1, terms |-> {"customer"},
        pipe |-> FALSE, dashes |-> FALSE, toc |-> FALSE, summary |-> FALSE])
    @@
    ("summary_keyword" :> [chars |-> 11, jp |-> 2, en |-> 0, urls |-> {}, cites |-> {}, hashes |-> 0,
        levels |-> {}, sections |-> {}, bullets |-> 1, numbers |-> 0, terms |-> {"market"},
        pipe |-> FALSE, dashes |-> FALSE, toc |-> FALSE, summary |-> FALSE])
    @@
    ("summary_keyword_huge" :> [chars |-> 49504, jp |-> 1, en |-> 0, urls |-> {}, cites |-> {}, hashes |-> 0,
        levels |-> {}, sections |-> {}, bullets |-> 1, numbers |-> 0, terms |-> {},
        pipe |-> FALSE, dashes |-> FALSE, toc |-> FALSE, summary |-> FALSE])

\* the number of characters of a block
CharsIn(b) ==
    CASE b = "head" -> 31 [] b = "toc_items" -> 55 [] b = "current" -> 8
      [] b = "references" -> 7 [] b = "url" -> 26 [] b = "citation" -> 31
      [] b = "bullets" -> 44 [] b = "table" -> 19 [] b = "text" -> 10
      [] b = "notes" -> 20
      [] b \in DOMAIN ReportLines -> ReportLines[b].chars

\* len(content): the blocks and the newlines that join them
CharCount(content) ==
    IF content = <<>> THEN 0
    ELSE SumSeq([i \in 1..Len(content) |-> CharsIn(content[i])]) + Len(content) - 1

\* matches of [぀-ゟ゠-ヿ一-龯]+ in a block
JapaneseWords(b) ==
    CASE b = "head" -> 3 [] b = "toc_items" -> 8 [] b = "current" -> 1
      [] b = "references" -> 1 [] b = "citation" -> 1 [] b = "bullets" -> 5
      [] b \in DOMAIN ReportLines -> ReportLines[b].jp
      [] OTHER -> 0

\* matches of \b[a-zA-Z]+\b in a block
EnglishWords(b) ==
    CASE b = "url" -> 4 [] b = "citation" -> 4 [] b = "table" -> 2
      [] b = "text" -> 2 [] b = "notes" -> 10
      [] b \in DOMAIN ReportLines -> ReportLines[b].en
      [] OTHER -> 0

WordsIn(b) == JapaneseWords(b) + EnglishWords(b)

\* _count_words
CountWords(content) == SumSeq([i \in 1..Len(content) |-> WordsIn(content[i])])

\* matches of https?://[^\s\)]+ in a block
UrlsIn(b) ==
    CASE b = "url" -> {"https://example.com/report"}
      [] b = "citation" -> {"https://example.com/data"}
      [] b \in DOMAIN ReportLines -> ReportLines[b].urls
      [] OTHER -> {}

\* matches of \[(\d+)\].*?(https?://[^\s\)]+) in a block
CitationsIn(b) ==
    CASE b = "citation" -> {<<"1", "https://example.com/data">>}
      [] b \in DOMAIN ReportLines -> ReportLines[b].cites
      [] OTHER -> {}

\* the lines of a block: the number of # the line starts with, -1 for a
\* blank line
LinesOf(b) ==
    CASE b = "head" -> <<1, 2, 2>>
      [] b = "current" -> <<3>>
      [] b = "references" -> <<2>>
      [] b = "bullets" -> <<0, 0, 0, 0, 0>>
      [] b = "notes" -> <<0, 0, 0, 0, 0, 0, 0, 0, 0, 0>>
      [] b \in DOMAIN ReportLines -> <<ReportLines[b].hashes>>
      [] OTHER -> <<0>>

RECURSIVE Flatten(_)
\* the lines of the blocks of a text, by halves
Flatten(content) ==
    IF content = <<>> THEN <<>>
    ELSE IF Len(content) = 1 THEN LinesOf(content[1])
    ELSE LET h == Len(content) \div 2
         IN  Flatten(SubSeq(content, 1, h)) \o Flatten(SubSeq(content, h + 1, Len(content)))

\* the block is a line "## 参考文献"
IsReferencesHeading(b) == b \in {"references", "h_references"}

\* lines of the text before the first line "## 参考文献"
LinesBefore(content) ==
    LET headings == {i \in 1..Len(content) : IsReferencesHeading(content[i])}
        first == IF headings = {} THEN Len(content) + 1
                 ELSE CHOOSE i \in headings : \A j \in headings : i <= j
    IN  Flatten(SubSeq(content, 1, first - 1))

\* the lines counted in the match of "## 参考文献.*?(?=##|$)": those after the
\* heading and before the next "##" that are not empty and do not start
\* with "#"
CountReferenceLines(lines) ==
    LET headings == {i \in 1..Len(lines) : lines[i] >= 2}
        end == IF headings = {} THEN Len(lines) + 1
               ELSE CHOOSE i \in headings : \A j \in headings : i <= j
    IN  Cardinality({i \in 1..(end - 1) : lines[i] = 0})

ReferenceCount(content) ==
    IF \A i \in 1..Len(content) : ~IsReferencesHeading(content[i]) THEN 0
    ELSE LET all == Flatten(content)
             skip == Len(LinesBefore(content)) + 1
         IN  CountReferenceLines(SubSeq(all, skip + 1, Len(all)))

\* _count_sources
CountSources(content) ==
    Cardinality((UNION {UrlsIn(content[i]) : i \in 1..Len(content)}))
      + Cardinality((UNION {CitationsIn(content[i]) : i \in 1..Len(content)}))
      + ReferenceCount(content)

\* the section titles, written in ASCII: current_analysis is 現状分析,
\* strategy_proposal is 戦略提言, action_plan is 実行計画, references is 参考文献
required_sections == <<"current_analysis", "strategy_proposal", "action_plan", "references">>

\* the required sections that occur in a block
SectionsIn(b) ==
    CASE b = "toc_items" -> {"current_analysis", "strategy_proposal", "action_plan", "references"}
      [] b = "current" -> {"current_analysis"}
      [] b = "references" -> {"references"}
      [] b \in DOMAIN ReportLines -> ReportLines[b].sections
      [] OTHER -> {}

CheckRequiredSections_HeadingsOnly(content) ==
    LET found == UNION {IF LinesOf(content[i])[1] > 0 THEN SectionsIn(content[i]) ELSE {}
                        : i \in 1..Len(content)}
    IN  SelectSeq(required_sections, LAMBDA sec : sec \notin found)

\* _check_required_sections
CheckRequiredSections(content) ==
    LET found == UNION {SectionsIn(content[i]) : i \in 1..Len(content)}
    IN  SelectSeq(required_sections, LAMBDA sec : sec \notin found)

\* heading levels matched by ^(#{1,6})\s+(.+)$ in a block
HeadingLevelsIn(b) ==
    CASE b = "head" -> {1, 2} [] b = "current" -> {3} [] b = "references" -> {2}
      [] b \in DOMAIN ReportLines -> ReportLines[b].levels
      [] OTHER -> {}

\* "## 目次" in the block
HasToc(b) == b = "head" \/ (b \in DOMAIN ReportLines /\ ReportLines[b].toc)

\* "## エグゼクティブサマリー" or "## サマリー" in the block
HasSummaryHeading(b) == b = "head" \/ (b \in DOMAIN ReportLines /\ ReportLines[b].summary)

\* "|" in the block
HasPipe(b) == b = "table" \/ (b \in DOMAIN ReportLines /\ ReportLines[b].pipe)

\* "---" in the block
HasDashes(b) == b = "table" \/ (b \in DOMAIN ReportLines /\ ReportLines[b].dashes)

\* _check_structure
CheckStructure(content) ==
    LET heading_levels == UNION {HeadingLevelsIn(content[i]) : i \in 1..Len(content)}
    IN  (IF Cardinality(heading_levels) >= 3 THEN 5 ELSE -5)
      + (IF \E i \in 1..Len(content) : HasToc(content[i]) THEN 3 ELSE -3)
      + (IF \E i \in 1..Len(content) : HasSummaryHeading(content[i]) THEN 2 ELSE -2)

\* matches of ^\s*[-*+]\s+ in a block
BulletsIn(b) ==
    CASE b = "bullets" -> 5
      [] b \in DOMAIN ReportLines -> ReportLines[b].bullets
      [] OTHER -> 0

\* matches of \d+%|\d+円|... in a block
NumbersIn(b) ==
    CASE b = "bullets" -> 5
      [] b \in DOMAIN ReportLines -> ReportLines[b].numbers
      [] OTHER -> 0

\* the business terms that occur in a block (market is 市場, strategy is 戦略,
\* analysis is 分析, customer is 顧客)
TermsIn(b) ==
    CASE b = "head" -> {"market", "strategy"} [] b = "toc_items" -> {"strategy", "analysis"}
      [] b = "current" -> {"analysis"} [] b = "bullets" -> {"customer"}
      [] b = "table" -> {"KPI", "ROI"}
      [] b \in DOMAIN ReportLines -> ReportLines[b].terms
      [] OTHER -> {}

\* _check_content_quality
CheckContentQuality(content) ==
    LET bullet_points == SumSeq([i \in 1..Len(content) |-> BulletsIn(content[i])])
        numbers == SumSeq([i \in 1..Len(content) |-> NumbersIn(content[i])])
        term_count == Cardinality((UNION {TermsIn(content[i]) : i \in 1..Len(content)}))
    IN  (IF (\E i \in 1..Len(content) : HasPipe(content[i]))
               /\ (\E i \in 1..Len(content) : HasDashes(content[i])) THEN 3 ELSE 0)
          + (IF bullet_points >= 10 THEN 2 ELSE IF bullet_points >= 5 THEN 1 ELSE -2)
          + (IF numbers >= 5 THEN 3 ELSE IF numbers >= 2 THEN 1 ELSE -3)
          + (IF term_count >= 5 THEN 2 ELSE IF term_count >= 3 THEN 1 ELSE -2)

Max(a, b) == IF a > b THEN a ELSE b
Min(a, b) == IF a < b THEN a ELSE b

\* results["score"] = max(0, min(100, results["score"]))
Normalize(score) == Max(0, Min(100, score))

SourcesLow_Reversed(sources_count, cfg) == sources_count > cfg.min_sources

\* if sources_count < self.config.min_sources
SourcesLow(sources_count, cfg) == sources_count < cfg.min_sources

\* a variant that takes the section penalty once, however many are missing
SectionPenalty_Once(missing_sections) == IF missing_sections = <<>> THEN 0 ELSE 10

\* results["score"] -= 10 * len(missing_sections)
SectionPenalty(missing_sections) == 10 * Len(missing_sections)

\* the body of the try block of check_report up to the normalisation
BuiltinCheck(content, cfg) ==
    LET word_count == CountWords(content)
        sources_count == CountSources(content)
        missing_sections == CheckRequiredSections(content)
        structure_score == CheckStructure(content)
        content_score == CheckContentQuality(content)
        wordsLow == word_count < cfg.min_word_count
        sourcesLow == SourcesLow(sources_count, cfg)
        raw == 100 - (IF wordsLow THEN 20 ELSE 0) - (IF sourcesLow THEN 15 ELSE 0)
                   - SectionPenalty(missing_sections) + structure_score + content_score
    IN  [passed |-> ~wordsLow /\ ~sourcesLow /\ missing_sections = <<>>,
         score |-> Normalize(raw),
         issues |-> (IF wordsLow THEN <<[issue |-> "word_count", missing |-> <<>>]>> ELSE <<>>)
                    \o (IF sourcesLow THEN <<[issue |-> "sources", missing |-> <<>>]>> ELSE <<>>)
                    \o (IF missing_sections # <<>>
                        THEN <<[issue |-> "sections", missing |-> missing_sections]>>
                        ELSE <<>>),
         warnings |-> (IF structure_score < 0 THEN <<"structure">> ELSE <<>>)
                      \o (IF content_score < 0 THEN <<"content">> ELSE <<>>),
         recommendations |-> (IF wordsLow THEN <<>> ELSE <<"word_count">>)
                             \o (IF sourcesLow THEN <<>> ELSE <<"sources">>)
                             \o (IF missing_sections # <<>> THEN <<>> ELSE <<"sections">>)]

\* the result of the except branches of check_report
FailedResult(issue) ==
    [passed |-> FALSE, score |-> 0, issues |-> <<[issue |-> issue, missing |-> <<>>]>>,
     warnings |-> <<>>, recommendations |-> <<>>]

OnFileNotFound_Propagates == Some([raised |-> "FileNotFoundError"])

\* except FileNotFoundError: the failed result is returned
OnFileNotFound == Some(FailedResult("file_not_found"))

\* dicts an injected validator's validate_quality returns
CustomResults ==
    { ("score" :> 150), ("score" :> (0 - 5)), ("passed" :> TRUE) }

\* results.update(custom_result)
DictUpdate(results, custom) == custom @@ results

QualityConfigs == { [min_word_count |-> 3000, min_sources |-> 10],
                    [min_word_count |-> 10, min_sources |-> 2] }

InitQC ==
    /\ \/ /\ \E c \in Contents : report_file = [state |-> "exists", content |-> c]
          /\ validator \in {"none", "custom"}
       \/ /\ report_file \in {[state |-> "missing", content |-> <<>>],
                              [state |-> "unreadable", content |-> <<>>]}
          /\ validator = "none"
    /\ quality_config \in QualityConfigs
    /\ qc_result = None
    /\ call = "none"
    /\ args = <<>>
    /\ returns = <<>>
    /\ max_retries = 3
    /\ engine = "real"
    /\ configFile = "ok"
    /\ phase_config = EmptyDict
    /\ phase_results = EmptyDict
    /\ op = "none"
    /\ pc = "idle"
    /\ pi = 1
    /\ phase_name = ""
    /\ themes = <<>>
    /\ ti = 1
    /\ step = 1
    /\ attempt = 0
    /\ theme_results = <<>>
    /\ previous_results = None
    /\ local_results = EmptyDict
    /\ report_path = None
    /\ script = NoScript
    /\ outcome = "none"
    /\ saved = EmptyDict
    /\ trace = <<>>
    /\ phaseLog = <<>>
    /\ lastExec = NoExec
    /\ delays = 0
    /\ summaries = 0
    /\ faults = 0

\* check_report(report_path)
CheckReport ==
    /\ qc_result = None
    /\ IF report_file.state = "missing"
       THEN qc_result' = OnFileNotFound
       ELSE IF report_file.state = "unreadable"
       THEN qc_result' = Some(FailedResult("error"))
       ELSE LET results == BuiltinCheck(report_file.content, quality_config)
            IN  IF validator = "none"
                THEN qc_result' = Some(results)
                ELSE \/ \E custom \in CustomResults :
                          qc_result' = Some(DictUpdate(results, custom))
                     \/ \* validate_quality raises
                        qc_result' = Some(FailedResult("error"))
    /\ UNCHANGED <<report_file, quality_config, validator>>
    /\ UNCHANGED <<ctlVars, fnVars>>

NextQC == CheckReport

SpecQC == InitQC /\ [][NextQC]_vars

\* C10: the score returned by check_report lies in [0, 100] for every
\* report text and on every return path: normal check, missing file,
\* internal error, and with a custom validator.
C10_ScoreInRange ==
    qc_result # None => qc_result[1].score \in 0..100

\* the check ran on a readable report with no injected validator
BuiltinRan == qc_result # None /\ report_file.state = "exists" /\ validator = "none"

IssuesOf(r) == {r.issues[i].issue : i \in 1..Len(r.issues)}

\* C11: for every report text the result of check_report has passed = True
\* if and only if its clamped score is at least 70.
C11_PassedIffScoreAtLeast70 ==
    BuiltinRan => (qc_result[1].passed <=> qc_result[1].score >= 70)

\* the required sections that occur in the report text
SectionsFound == UNION {SectionsIn(report_file.content[i]) : i \in 1..Len(report_file.content)}

\* the missing sections named by the result's missing-section issue
MissingReported(r) ==
    LET idx == {i \in 1..Len(r.issues) : r.issues[i].issue = "sections"}
    IN  IF idx = {} THEN <<>> ELSE r.issues[CHOOSE i \in idx : TRUE].missing

\* position of a section in the required list
RequiredIndex(sec) == CHOOSE i \in 1..Len(required_sections) : required_sections[i] = sec

\* C12: the missing sections are exactly the required sections that do not
\* occur in the report text, in the order of the required list; a report
\* containing all four has no missing-section issue and no penalty for it.
C12_MissingSections ==
    BuiltinRan =>
        LET r == qc_result[1]
            m == MissingReported(r)
            all == {required_sections[i] : i \in 1..Len(required_sections)}
            c == report_file.content
            others == (IF CountWords(c) < quality_config.min_word_count THEN 20 ELSE 0)
                      + (IF CountSources(c) < quality_config.min_sources THEN 15 ELSE 0)
        IN  /\ {m[i] : i \in 1..Len(m)} = all \ SectionsFound
            /\ \A i, j \in 1..Len(m) : i < j => RequiredIndex(m[i]) < RequiredIndex(m[j])
            /\ ("sections" \in IssuesOf(r)) <=> (SectionsFound # all)
            /\ r.score = Normalize(100 - others - 10 * Cardinality(all \ SectionsFound)
                                     + CheckStructure(c) + CheckContentQuality(c))

\* a report in which the first and last required sections occur only in
\* running text links is checked: nothing is reported missing
C12_Witness ==
    /\ BuiltinRan
    /\ "toc_items" \in Present(report_file.content)
    /\ "current" \notin Present(report_file.content)
    /\ "references" \notin Present(report_file.content)
    /\ MissingReported(qc_result[1]) = <<>>
    /\ "sections" \notin IssuesOf(qc_result[1])

DefaultThresholds == quality_config = [min_word_count |-> 3000, min_sources |-> 10]

NoUrl(content) == \A i \in 1..Len(content) : UrlsIn(content[i]) = {}

\* a 50-character report file without URL was checked with the defaults
FiftyCharsNoUrl ==
    /\ BuiltinRan
    /\ DefaultThresholds
    /\ CharCount(report_file.content) = 50
    /\ NoUrl(report_file.content)

\* C13: for every 50-character report file that contains no URL,
\* check_report with the default thresholds returns passed = False with
\* both the insufficient-length and the insufficient-sources issue.
C13_ShortFileBothIssues ==
    FiftyCharsNoUrl =>
        /\ qc_result[1].passed = FALSE
        /\ {"word_count", "sources"} \subseteq IssuesOf(qc_result[1])

\* C13 as amended: the same for every such file whose reference section
\* holds fewer than min_sources counted lines.
C13_ShortFileFewReferences ==
    (FiftyCharsNoUrl /\ ReferenceCount(report_file.content) < quality_config.min_sources) =>
        /\ qc_result[1].passed = FALSE
        /\ {"word_count", "sources"} \subseteq IssuesOf(qc_result[1])

C13_Witness ==
    /\ FiftyCharsNoUrl
    /\ report_file.content = <<"table", "table", "text">>
    /\ "sources" \in IssuesOf(qc_result[1])

\* C14: check_report does not raise when the report file does not exist;
\* it returns passed = False, score 0 and a non-empty issues list naming
\* the missing file.
C14_MissingFileReturnsFailure ==
    (qc_result # None /\ report_file.state = "missing") =>
        LET r == qc_result[1]
        IN  /\ "raised" \notin DOMAIN r
            /\ r.passed = FALSE
            /\ r.score = 0
            /\ r.issues # <<>>
            /\ r.issues[1].issue = "file_not_found"

C14_Witness ==
    /\ report_file.state = "missing"
    /\ qc_result # None
    /\ qc_result[1].score = 0

\* the controller has not been started
ControllerIdle ==
    /\ max_retries = 3
    /\ engine = "real"
    /\ configFile = "ok"
    /\ phase_config = EmptyDict
    /\ phase_results = EmptyDict
    /\ op = "none"
    /\ pc = "idle"
    /\ pi = 1
    /\ phase_name = ""
    /\ themes = <<>>
    /\ ti = 1
    /\ step = 1
    /\ attempt = 0
    /\ theme_results = <<>>
    /\ previous_results = None
    /\ local_results = EmptyDict
    /\ report_path = None
    /\ script = NoScript
    /\ outcome = "none"
    /\ saved = EmptyDict
    /\ trace = <<>>
    /\ phaseLog = <<>>
    /\ lastExec = NoExec
    /\ delays = 0
    /\ summaries = 0
    /\ faults = 0

\* no report is being checked
QualityIdle ==
    /\ report_file = [state |-> "missing", content |-> <<>>]
    /\ quality_config = [min_word_count |-> 3000, min_sources |-> 10]
    /\ validator = "none"
    /\ qc_result = None

(***************************************************************************)
(* ResearchEngine.replace_variables.                                       *)
(*                                                                         *)
(* A string is a sequence of symbols: "[", "]", the text between the       *)
(* brackets of a recognised token as one symbol, and symbols of plain      *)
(* text.  The bracket tokens of the replacement table, in its order:       *)
(*   [自社名] company, [業界] industry, [主要製品/サービス]                  *)
(*   main_product_service, [製品/サービス] product_service,                 *)
(*   [自社製品/サービス] own_product_service, [製品/サービス名]              *)
(*   product_service_name, [対象市場] target_market_a, [市場] market,       *)
(*   [ターゲット市場] target_market_b, [国・地域] region, [競合企業]          *)
(*   competitor_companies, [競合] competitors, [ターゲット顧客]              *)
(*   target_customer, [分析対象とする主要な顧客ペルソナ] persona,            *)
(*   [新機能や新製品のアイデア] new_product_idea,                           *)
(*   [想定するターゲットユーザー] target_user, [候補国] candidate_countries, *)
(*   [ブランド名] brand_name, [自社/事業部] division,                       *)
(*   [計測可能な最重要目標] main_goal, [総予算額] budget,                    *)
(*   [キャンペーン目的] campaign_objective, [テーマ] theme, [目的] objective *)
(***************************************************************************)
Token(name) == <<"[", name, "]">>

\* config_data.get(key, default)
ConfigGet(config_data, key, default) ==
    IF key \in DOMAIN config_data THEN config_data[key] ELSE default

\* ", ".join(strings)
RECURSIVE JoinComma(_)
JoinComma(strings) ==
    IF strings = <<>> THEN <<>>
    ELSE IF Len(strings) = 1 THEN strings[1]
    ELSE strings[1] \o <<",", " ">> \o JoinComma(Tail(strings))

\* the dict replacements of replace_variables, in insertion order
Replacements(c) ==
    << <<Token("company"), ConfigGet(c, "company_name", <<>>)>>,
       <<Token("industry"), ConfigGet(c, "industry", <<>>)>>,
       <<Token("main_product_service"), ConfigGet(c, "product_service", <<>>)>>,
       <<Token("product_service"), ConfigGet(c, "product_service", <<>>)>>,
       <<Token("own_product_service"), ConfigGet(c, "product_service", <<>>)>>,
       <<Token("product_service_name"), ConfigGet(c, "product_service", <<>>)>>,
       <<Token("target_market_a"), ConfigGet(c, "target_market", <<>>)>>,
       <<Token("market"), ConfigGet(c, "target_market", <<>>)>>,
       <<Token("target_market_b"), ConfigGet(c, "target_market", <<>>)>>,
       <<Token("region"), ConfigGet(c, "region", <<>>)>>,
       <<Token("competitor_companies"), JoinComma(ConfigGet(c, "competitors", <<>>))>>,
       <<Token("competitors"), JoinComma(ConfigGet(c, "competitors", <<>>))>>,
       <<Token("target_customer"), ConfigGet(c, "target_customer", <<>>)>>,
       <<Token("persona"), ConfigGet(c, "persona", <<>>)>>,
       <<Token("new_product_idea"), ConfigGet(c, "new_product_idea", <<>>)>>,
       <<Token("target_user"), ConfigGet(c, "target_user", <<>>)>>,
       <<Token("candidate_countries"), ConfigGet(c, "candidate_countries", <<>>)>>,
       <<Token("brand_name"),
         ConfigGet(c, "brand_name", ConfigGet(c, "company_name", <<>>))>>,
       <<Token("division"),
         ConfigGet(c, "division", ConfigGet(c, "company_name", <<>>))>>,
       <<Token("main_goal"), ConfigGet(c, "main_goal", <<>>)>>,
       <<Token("budget"), ConfigGet(c, "budget", <<>>)>>,
       <<Token("campaign_objective"), ConfigGet(c, "campaign_objective", <<>>)>>,
       <<Token("theme"), ConfigGet(c, "theme", <<>>)>>,
       <<Token("objective"), ConfigGet(c, "objective", <<>>)>> >>

\* str.replace(old, new): every non-overlapping occurrence, from the left
RECURSIVE StrReplace(_, _, _)
StrReplace(str, old, new) ==
    IF Len(str) < Len(old) THEN str
    ELSE IF SubSeq(str, 1, Len(old)) = old
         THEN new \o StrReplace(SubSeq(str, Len(old) + 1, Len(str)), old, new)
         ELSE <<str[1]>> \o StrReplace(Tail(str), old, new)

\* for key, value in replacements.items(): prompt = prompt.replace(key, value)
RECURSIVE ReplaceAll(_, _)
ReplaceAll(prompt, pairs) ==
    IF pairs = <<>> THEN prompt
    ELSE ReplaceAll(StrReplace(prompt, pairs[1][1], pairs[1][2]), Tail(pairs))

\* replace_variables(prompt, config_data)
replace_variables(prompt, config_data) == ReplaceAll(prompt, Replacements(config_data))

\* old in str
Contains(str, old) ==
    \E i \in 1..(Len(str) - Len(old) + 1) : SubSeq(str, i, i + Len(old) - 1) = old

PromptSymbols == {"[", "]", "text", "company", "industry"}

PromptTemplates == UNION {[1..n -> PromptSymbols] : n \in 0..MaxPromptLen}

\* configurations: each field unset, plain text, or (company_name, industry)
\* a text that spells a bracket token
ConfigChoices ==
    { ( IF cn = None THEN EmptyDict ELSE ("company_name" :> cn[1]) )
        @@ ( IF ind = None THEN EmptyDict ELSE ("industry" :> ind[1]) )
        @@ ( IF br = None THEN EmptyDict ELSE ("brand_name" :> br[1]) )
        @@ ( IF cp = None THEN EmptyDict ELSE ("competitors" :> cp[1]) )
      : cn \in {None, Some(<<"Acme">>), Some(Token("industry"))},
        ind \in {None, Some(<<"Retail">>), Some(Token("company"))},
        br \in {None, Some(<<"AcmeBrand">>)},
        cp \in {None, Some(<< <<"Rival">> >>), Some(<< <<"Rival">>, <<"Other">> >>)} }

InitRV ==
    /\ call = "replace_variables"
    /\ args \in [prompt : PromptTemplates, config_data : ConfigChoices]
    /\ returns = <<>>
    /\ ControllerIdle
    /\ QualityIdle

\* prompt = self.replace_variables(prompt, config_data)
ReplaceVariables ==
    /\ call = "replace_variables"
    /\ returns = <<>>
    /\ returns' = <<replace_variables(args.prompt, args.config_data)>>
    /\ UNCHANGED <<call, args, ctlVars, qcVars>>

\* replace_variables applied to its own output with the same configuration
ReplaceVariablesAgain ==
    /\ call = "replace_variables"
    /\ Len(returns) = 1
    /\ returns' = Append(returns, replace_variables(returns[1], args.config_data))
    /\ UNCHANGED <<call, args, ctlVars, qcVars>>

NextRV == ReplaceVariables \/ ReplaceVariablesAgain

SpecRV == InitRV /\ [][NextRV]_vars

RecognizedTokens == {Replacements(EmptyDict)[i][1] : i \in 1..24}

\* C15: for every template and configuration the prompt returned by
\* replace_variables contains no occurrence of a recognised bracket token.
C15_NoTokenLeft ==
    (call = "replace_variables" /\ returns # <<>>) =>
        \A tok \in RecognizedTokens : ~Contains(returns[1], tok)

\* C16: replace_variables(replace_variables(p, c), c) equals
\* replace_variables(p, c) for every template p and configuration c.
C16_Idempotent ==
    (call = "replace_variables" /\ Len(returns) = 2) => returns[2] = returns[1]

(***************************************************************************)
(* ResearchEngine.extract_sources.                                         *)
(*                                                                         *)
(* A research result is a sequence of tokens separated by blanks:          *)
(*   word     "see"                                                        *)
(*   marker   "[1]"                                                        *)
(*   url_a    "https://a.example/x"                                        *)
(*   url_b    "https://b.example/y"                                        *)
(*   glued    "https://a.example/x[2]https://b.example/y"                  *)
(*   newline  a line break                                                 *)
(* A URL is named by the token that spells it.                             *)
(***************************************************************************)
SourceTokens == {"word", "marker", "url_a", "url_b", "glued", "newline"}

ResearchTexts == UNION {[1..n -> SourceTokens] : n \in 0..MaxTextLen}

\* the token holds a match of https?://[^\s\)]+
IsUrlToken(t) == t \in {"url_a", "url_b", "glued"}

\* re.findall(url_pattern, research_result)
FindUrls(text) == SelectSeq(text, IsUrlToken)

\* index of the first URL token after text[1] on the same line, 0 if none
RECURSIVE NextUrlOnLine(_, _)
NextUrlOnLine(text, k) ==
    IF k > Len(text) \/ text[k] = "newline" THEN 0
    ELSE IF IsUrlToken(text[k]) THEN k
    ELSE NextUrlOnLine(text, k + 1)

\* re.findall(citation_pattern, research_result), the URL of each match: the
\* scan takes the leftmost [n], lazily skips to the first URL on the line
\* and goes on behind that URL
RECURSIVE FindCitations(_)
FindCitations(text) ==
    IF text = <<>> THEN <<>>
    ELSE IF text[1] = "glued"
         THEN <<"url_b">> \o FindCitations(Tail(text))
    ELSE IF text[1] = "marker" /\ NextUrlOnLine(text, 2) # 0
         THEN LET j == NextUrlOnLine(text, 2)
              IN  <<text[j]>> \o FindCitations(SubSeq(text, j + 1, Len(text)))
    ELSE FindCitations(Tail(text))

\* the lists a set can be turned into by list(set(...))
Orderings(S) ==
    {q \in [1..Cardinality(S) -> S] : \A i, j \in 1..Cardinality(S) : q[i] = q[j] => i = j}

UniqueSources_NoDedup(sources) == {sources}

\* unique_sources = list(set(sources)): the order is the set's iteration order
UniqueSources(sources) == Orderings({sources[i] : i \in 1..Len(sources)})

\* extract_sources(research_result): the lists it may return
extract_sources(text) == UniqueSources(FindUrls(text) \o FindCitations(text))

InitES ==
    /\ call = "extract_sources"
    /\ args \in [research_result : ResearchTexts]
    /\ returns = <<>>
    /\ ControllerIdle
    /\ QualityIdle

\* a first and a second run of extract_sources on the same text
ExtractSources ==
    /\ call = "extract_sources"
    /\ Len(returns) < 2
    /\ \E unique_sources \in extract_sources(args.research_result) :
         returns' = Append(returns, unique_sources)
    /\ UNCHANGED <<call, args, ctlVars, qcVars>>

NextES == ExtractSources

SpecES == InitES /\ [][NextES]_vars

Elements(q) == {q[i] : i \in 1..Len(q)}

\* the URLs matched in the text
LiteralUrls(text) == {text[i] : i \in {k \in 1..Len(text) : IsUrlToken(text[k])}}

\* the token at i lies behind a [n] marker of its line with no URL between
BehindMarker(text, i) ==
    \E k \in 1..(i - 1) :
        /\ text[k] = "marker"
        /\ \A n \in k..i : text[n] # "newline"
        /\ \A n \in (k + 1)..(i - 1) : ~IsUrlToken(text[n])

\* the URLs that follow a [n] marker and are not part of a longer URL match
\* that a marker before them already cites
CitedUrls(text) ==
    {text[i] : i \in {k \in 1..Len(text) : IsUrlToken(text[k]) /\ BehindMarker(text, k)}}
      \cup {"url_b" : i \in {k \in 1..Len(text) : text[k] = "glued" /\ ~BehindMarker(text, k)}}

PromptMargin == 200
\* max_report_length - 500
ReportMargin == 500
\* len("\n... (プロンプトが長すぎるため省略)")
PromptMarkerLen == 21
\* len("\n... (レポートが長すぎるため省略)")
ReportMarkerLen == 20

\* len("\n".join(lines))
JoinedLen(lines) == IF lines = <<>> THEN 0 ELSE SumSeq(lines) + Len(lines) - 1

TruncateLoop_AppendBeforeCheck(lines, limit, marker, current_length, truncated_lines) ==
    IF lines = <<>> THEN truncated_lines
    ELSE IF current_length + lines[1] > limit
         THEN truncated_lines \o <<lines[1], marker>>
         ELSE truncated_lines \o lines

\* the loop over the lines: a line that would pass the limit is replaced by
\* the marker and ends the loop
RECURSIVE TruncateLoop(_, _, _, _, _)
TruncateLoop(lines, limit, marker, current_length, truncated_lines) ==
    IF lines = <<>> THEN truncated_lines
    ELSE IF current_length + lines[1] > limit
         THEN Append(truncated_lines, marker)
         ELSE TruncateLoop(Tail(lines), limit, marker, current_length + lines[1] + 1,
                           Append(truncated_lines, lines[1]))

\* ResearchEngine._truncate_prompt(prompt)
EngineTruncatePrompt(lines, max_prompt_length) ==
    TruncateLoop(lines, max_prompt_length - PromptMargin, PromptMarkerLen, 0, <<>>)

\* ReportGenerator._truncate_report(content)
TruncateReport(lines, max_report_length) ==
    TruncateLoop(lines, max_report_length - ReportMargin, ReportMarkerLen, 0, <<>>)

\* CursorIntegration._truncate_prompt(prompt); its except branch is not
\* reached for a string argument
CursorTruncatePrompt(lines, max_prompt_length) ==
    TruncateLoop(lines, max_prompt_length - PromptMargin, PromptMarkerLen, 0, <<>>)

LineLengths == {0, 1, 50, 51, 7800, 7801, 49500, 49501}

LineTexts == UNION {[1..n -> LineLengths] : n \in 1..MaxLines}

\* configured maxima: zero, small ones whose limit is 50 and the defaults
PromptMaxima == {0, 250, 8000}
ReportMaxima == {0, 550, 50000}

InitTR ==
    /\ \/ /\ call \in {"engine_truncate_prompt", "cursor_truncate_prompt"}
          /\ args \in [lines : LineTexts, max : PromptMaxima]
       \/ /\ call = "truncate_report"
          /\ args \in [lines : LineTexts, max : ReportMaxima]
    /\ returns = <<>>
    /\ ControllerIdle
    /\ QualityIdle

EngineTruncate ==
    /\ call = "engine_truncate_prompt"
    /\ returns = <<>>
    /\ returns' = <<EngineTruncatePrompt(args.lines, args.max)>>
    /\ UNCHANGED <<call, args, ctlVars, qcVars>>

ReportTruncate ==
    /\ call = "truncate_report"
    /\ returns = <<>>
    /\ returns' = <<TruncateReport(args.lines, args.max)>>
    /\ UNCHANGED <<call, args, ctlVars, qcVars>>

CursorTruncate ==
    /\ call = "cursor_truncate_prompt"
    /\ returns = <<>>
    /\ returns' = <<CursorTruncatePrompt(args.lines, args.max)>>
    /\ UNCHANGED <<call, args, ctlVars, qcVars>>

NextTR == EngineTruncate \/ ReportTruncate \/ CursorTruncate

SpecTR == InitTR /\ [][NextTR]_vars

Truncating == call \in {"engine_truncate_prompt", "truncate_report", "cursor_truncate_prompt"}

MarkerLenOf(c) == IF c = "truncate_report" THEN ReportMarkerLen ELSE PromptMarkerLen

\* C18: for every input longer than the configured maximum, the prompt
\* truncations and the report truncation return a text whose length is at
\* most the configured maximum plus the length of the ellipsis marker.
C18_TruncationBound ==
    (Truncating /\ returns # <<>> /\ JoinedLen(args.lines) > args.max) =>
        JoinedLen(returns[1]) <= args.max + MarkerLenOf(call)

\* a report longer than 50000 characters was cut behind its first line
C18_Witness ==
    /\ call = "truncate_report"
    /\ args.max = 50000
    /\ args.lines = <<49500, 0, 7800>>
    /\ returns = << <<49500, ReportMarkerLen>> >>

(***************************************************************************)
(* Report and quality check inside run_phase_research.                     *)
(***************************************************************************)
ReportEvents == {i \in 1..Len(trace) : trace[i].kind = "report"}

QualityEvents == {i \in 1..Len(trace) : trace[i].kind = "quality"}

\* a theme of the running phase has just ended: trace is its history
ThemeOfPhaseEnded == op \in {"full", "phase"} /\ pc = "theme_loop" /\ ti > 1

C20_ThemeHistory ==
    (op \in {"full", "phase"} /\ (InTheme \/ ThemeOfPhaseEnded)) =>
        /\ Cardinality(ReportEvents) <= 1
        /\ (pc = "quality" \/ ThemeOfPhaseEnded) => Cardinality(ReportEvents) = 1
        /\ \A r \in ReportEvents : \A e \in EngineEvents : e < r
        /\ pc \in {"report", "quality"} => step > 3
        /\ \A q \in QualityEvents :
             /\ \E r \in ReportEvents : r < q /\ ~trace[r].raised
             /\ q = Len(trace)
             /\ (ThemeOfPhaseEnded /\ ~trace[q].raised) =>
                  /\ themes[ti - 1] \in DOMAIN local_results
                  /\ local_results[themes[ti - 1]].quality.passed = trace[q].quality_passed
                  /\ local_results[themes[ti - 1]].results = trace[q].passed

C20_SaveRecordsThemes ==
    (op \in {"full", "phase"} /\ pc = "theme_loop" /\ ti > Len(themes)) =>
        (phase_name \in DOMAIN phase_results' /\ phase_results'[phase_name] = local_results)

\* C20: for each theme of a phase the report generator is invoked exactly
\* once and only after all step attempts of the theme have ended, the
\* quality checker only after the report was generated; a failed quality
\* check is followed by no further engine call or report generation for the
\* theme, and the theme is recorded in the phase results all the same.
C20_ReportThenQuality == [](C20_ThemeHistory) /\ [][C20_SaveRecordsThemes]_vars

\* the first theme of a phase ended with a failed quality check and is
\* recorded
C20_Witness ==
    /\ ThemeOfPhaseEnded
    /\ ti = 2
    /\ trace # <<>>
    /\ Last(trace).kind = "quality"
    /\ ~Last(trace).raised
    /\ ~Last(trace).quality_passed
    /\ themes[1] \in DOMAIN local_results

(***************************************************************************)
(* ReportGenerator (src/generator/report_generator.py).                    *)
(*                                                                         *)
(* A report is the sequence of its lines, each a name of ReportLines.  A   *)
(* research result text is a non-empty sequence of lines of ResultLineKinds*)
(* and the sources of a result are URL tokens (url_a, url_b).  A path is   *)
(* the record of its directory components and of the pieces of its file    *)
(* name.                                                                   *)
(***************************************************************************)
MaxResultLines == 1

ResultLineKinds == {"plain", "keyword", "keyword_huge", "long", "bullet"}

\* the texts of the first research result: 1..MaxResultLines lines
ResultTexts == UNION {[1..n -> ResultLineKinds] : n \in 1..MaxResultLines}

\* the one-line texts of the second and third result
ShortResultTexts == {<<k>> : k \in ResultLineKinds}

max_report_length == 50000

\* a line that holds one of the keywords of create_executive_summary
HasSummaryKeyword(line) == line \in {"keyword", "keyword_huge"}

\* f"- {line.strip()}"
SummaryPoint(line) == IF line = "keyword" THEN "summary_keyword" ELSE "summary_keyword_huge"

\* line.strip().startswith("- ") or line.strip().startswith("* ")
IsListLine(line) == line = "bullet"

RECURSIVE ResultLines(_)
\* the lines of the result texts of all results, in order
ResultLines(results) ==
    IF results = <<>> THEN <<>>
    ELSE results[1].result \o ResultLines(Tail(results))

create_executive_summary(results) ==
    LET keyword_lines == SelectSeq(ResultLines(results), HasSummaryKeyword)
        summary_points == [i \in 1..Len(keyword_lines) |-> SummaryPoint(keyword_lines[i])]
    IN  IF summary_points = <<>> THEN <<"summary_default">>
        ELSE FirstN(summary_points, 5)

RECURSIVE FindingsLoop(_, _, _)
FindingsLoop(lines, in_list, findings) ==
    IF lines = <<>> THEN findings
    ELSE IF IsListLine(lines[1])
         THEN FindingsLoop(Tail(lines), TRUE, Append(findings, lines[1]))
         ELSE IF in_list /\ lines[1] = "blank"
              THEN findings
              ELSE FindingsLoop(Tail(lines), in_list, findings)

extract_key_findings(analysis_text) ==
    LET findings == FindingsLoop(analysis_text, FALSE, <<>>)
    IN  IF findings = <<>> THEN <<"findings_default">> ELSE FirstN(findings, 10)

\* chart generation is disabled: the empty string
create_analysis_charts(theme_id, results) == <<"blank">>

create_strategy_comparison_table(strategy_result) ==
    IF strategy_result = None THEN <<"no_strategy">>
    ELSE <<"blank", "cmp_head", "cmp_sep", "cmp_row1", "cmp_row2", "cmp_row3", "blank">>

create_action_plan_table(execution_result) ==
    IF execution_result = None THEN <<"no_plan">>
    ELSE <<"blank", "act_head", "act_sep", "act_row1", "act_row2", "act_row3", "blank">>

create_kpi_table(execution_result) ==
    IF execution_result = None THEN <<"no_kpi">>
    ELSE <<"blank", "kpi_head", "kpi_sep", "kpi_row1", "kpi_row2", "kpi_row3", "blank">>

RECURSIVE AllSources(_)
\* references.extend(result["sources"]) over the results that have sources
AllSources(results) ==
    IF results = <<>> THEN <<>>
    ELSE results[1].sources \o AllSources(Tail(results))

\* f"{i}. {ref}"
ReferenceLine(i, ref) ==
    CASE i = 1 /\ ref = "url_a" -> "ref_1_url_a"
      [] i = 1 /\ ref = "url_b" -> "ref_1_url_b"
      [] i = 2 /\ ref = "url_a" -> "ref_2_url_a"
      [] i = 2 /\ ref = "url_b" -> "ref_2_url_b"

\* list(set(references)) has an order the program does not fix: the set of
\* the texts the section can be
create_references_section(results) ==
    LET references == AllSources(results)
        unique == {references[i] : i \in 1..Len(references)}
    IN  IF unique = {} THEN {<<"no_references">>}
        ELSE {LET shown == FirstN(unique_references, 15)
              IN  [i \in 1..Len(shown) |-> ReferenceLine(i, shown[i])] \o <<"blank">> :
                  unique_references \in Orderings(unique)}

TitleLine(theme_info) == IF theme_info.name = "SWOT" THEN "title_SWOT" ELSE "title_AB"

ProjectLine(config_data) ==
    IF config_data.project_name = "proj" THEN "project_proj" ELSE "project_demo"

ResultText(results, i) == IF Len(results) >= i THEN results[i].result ELSE <<"blank">>

ResultOrNone(results, i) == IF Len(results) >= i THEN Some(results[i]) ELSE None

\* the template of create_report_content, with the references section given
ReportTemplate(config_data, phase, theme_id, theme_info, results, references_section) ==
    <<TitleLine(theme_info), "blank", ProjectLine(config_data), "phase_line", "date_line",
      "company_line", "blank", "rule", "blank", "h_summary", "blank">>
    \o create_executive_summary(results)
    \o <<"blank", "rule", "blank", "h_toc", "blank", "toc_1", "toc_2", "toc_3", "toc_4",
         "blank", "rule", "blank", "h_current", "blank">>
    \o ResultText(results, 1)
    \o <<"blank", "h_findings", "blank">>
    \o extract_key_findings(ResultText(results, 1))
    \o <<"blank", "h_charts", "blank">>
    \o create_analysis_charts(theme_id, results)
    \o <<"blank", "rule", "blank", "h_strategy", "blank">>
    \o ResultText(results, 2)
    \o <<"blank", "h_comparison", "blank">>
    \o create_strategy_comparison_table(ResultOrNone(results, 2))
    \o <<"blank", "rule", "blank", "h_plan", "blank">>
    \o ResultText(results, 3)
    \o <<"blank", "h_action", "blank">>
    \o create_action_plan_table(ResultOrNone(results, 3))
    \o <<"blank", "h_kpi", "blank">>
    \o create_kpi_table(ResultOrNone(results, 3))
    \o <<"blank", "rule", "blank", "h_references", "blank">>
    \o references_section
    \o <<"blank", "rule", "blank", "h_appendix", "blank", "h_method", "method_1", "method_2",
         "method_3", "blank", "h_assurance", "assurance_1", "assurance_2", "assurance_3",
         "blank", "rule", "blank", "footer", "blank">>

\* the contents create_report_content can return
create_report_content(config_data, phase, theme_id, theme_info, results) ==
    {ReportTemplate(config_data, phase, theme_id, theme_info, results, section) :
        section \in create_references_section(results)}

RECURSIVE PrefixSums(_)
\* the running sums of a sequence of numbers, by halves
PrefixSums(ns) ==
    IF Len(ns) <= 1 THEN ns
    ELSE LET h == Len(ns) \div 2
             left == PrefixSums(SubSeq(ns, 1, h))
             right == PrefixSums(SubSeq(ns, h + 1, Len(ns)))
         IN  left \o [i \in 1..Len(right) |-> left[h] + right[i]]

\* current_length when the loop of _truncate_report is at each line: the
\* lengths of the lines before it, and one more for each
CurrentLength(lines) ==
    LET after == PrefixSums([i \in 1..Len(lines) |-> CharsIn(lines[i]) + 1])
    IN  [j \in 1..Len(lines) |-> IF j = 1 THEN 0 ELSE after[j - 1]]

\* the loop of _truncate_report over the lines of the report: the lines
\* before the first one that does not fit, and the marker; the marker
\* "\n... (...)" is a blank line and the 19 characters after it
truncate_report(content) ==
    LET current_length == CurrentLength(content)
        over == {j \in 1..Len(content) :
                    current_length[j] + CharsIn(content[j])
                        > max_report_length - ReportMargin}
    IN  IF over = {} THEN content
        ELSE LET cut == CHOOSE j \in over : \A k \in over : j <= k
             IN  SubSeq(content, 1, cut - 1) \o <<"blank", "truncation_marker">>

\* output_base / project_name / phase_name / f"{theme_id}_{name}.md"
ThemeReportPath(config_data, phase, theme_id, theme_info) ==
    [dir |-> <<"outputs", config_data.project_name, phase>>,
     file |-> <<theme_id, "_", theme_info.name, ".md">>]

\* a theme name with a path separator puts the file in a directory that
\* mkdir did not create
HasSeparator(name) == name = "A/B"

GeneratorArgs ==
    {[config_data |-> [project_name |-> p, company_name |-> "Acme"],
      phase_name |-> "phase_1", theme_id |-> "A", theme_info |-> [name |-> n],
      results |-> <<StepResult("A", 1, <<>>, t1, s1, None),
                    StepResult("A", 2, <<>>, t2, <<>>, None),
                    StepResult("A", 3, <<>>, t3, s3, None)>>] :
        p \in {"proj", "demo"}, n \in {"SWOT", "A/B"},
        t1 \in ResultTexts, t2 \in ShortResultTexts, t3 \in ShortResultTexts,
        s1 \in {<<>>, <<"url_a", "url_b">>}, s3 \in {<<>>, <<"url_a">>}}

InitRG ==
    /\ call = "generate_theme_report"
    /\ args \in GeneratorArgs
    /\ returns = <<>>
    /\ ControllerIdle
    /\ QualityIdle

\* generate_theme_report: the report of a theme is written and its path returned
GenerateThemeReport ==
    /\ call = "generate_theme_report"
    /\ returns = <<>>
    /\ LET path == ThemeReportPath(args.config_data, args.phase_name, args.theme_id,
                                     args.theme_info)
       IN  \E report_content \in create_report_content(args.config_data, args.phase_name,
                                    args.theme_id, args.theme_info, args.results) :
             LET written == IF CharCount(report_content) > max_report_length
                            THEN truncate_report(report_content)
                            ELSE report_content
             IN  IF HasSeparator(args.theme_info.name)
                 THEN \* open() raises FileNotFoundError, which is raised again
                      /\ returns' = <<Raised>>
                      /\ UNCHANGED report_file
                 ELSE /\ report_file' = [state |-> "exists", content |-> written,
                                         path |-> path]
                      /\ returns' = <<Returned(path)>>
    /\ UNCHANGED <<call, args, quality_config, validator, qc_result>>
    /\ UNCHANGED ctlVars

\* check_report on the path generate_theme_report returned
CheckGenerated ==
    /\ call = "generate_theme_report"
    /\ returns # <<>>
    /\ ~returns[1].raised
    /\ CheckReport

NextRG == GenerateThemeReport \/ CheckGenerated

SpecRG == InitRG /\ [][NextRG]_vars

\* C19: for every well-formed configuration, phase, theme and list of three
\* step results, generate_theme_report writes the report to
\* outputs/<project>/<phase>/<theme_id>_<theme_name>.md, returns that path,
\* and check_report on the file reports no missing section.
C19_ReportWrittenWithAllSections ==
    (call = "generate_theme_report" /\ returns # <<>>) =>
        LET expected == [dir |-> <<"outputs", args.config_data.project_name, args.phase_name>>,
                         file |-> <<args.theme_id, "_", args.theme_info.name, ".md">>]
        IN  /\ ~returns[1].raised
            /\ returns[1].value = expected
            /\ report_file.state = "exists"
            /\ report_file.path = expected
            /\ qc_result # None => MissingReported(qc_result[1]) = <<>>

(***************************************************************************)
(* Properties of the controller: errors of a theme, persistence, the       *)
(* phase results.                                                          *)
(***************************************************************************)
\* the themes of a phase entry of the log whose report or check raised
RaisedThemes(e) ==
    {e.themeLog[i].theme : i \in {j \in 1..Len(e.themeLog) :
                                     e.themeLog[j].outcome \in {"report_raised",
                                                                "quality_raised"}}}

\* the themes of a phase entry of the log that were recorded
RecordedThemes(e) ==
    {e.themeLog[i].theme : i \in {j \in 1..Len(e.themeLog) :
                                     e.themeLog[j].outcome = "recorded"}}

\* the themes of a phase entry of the log, in the order they ended
LoggedThemes(e) == [i \in 1..Len(e.themeLog) |-> e.themeLog[i].theme]

\* the phase runs of the log that went through their theme loop
PhaseRunsDone ==
    {i \in 1..Len(phaseLog) :
        /\ phaseLog[i].outcome # "running"
        /\ configFile = "ok"
        /\ phaseLog[i].phase \in DOMAIN phase_config}

\* C21: if report generation or the quality check raises for a theme, that
\* theme gets no entry in the phase results, the error does not propagate
\* out of run_phase_research (only a failure of save_phase_results, a
\* second fault, makes the phase raise), every remaining theme of the phase
\* is still processed and the phase results are still recorded and saved.
C21_ThemeErrorIsContained ==
    op \in {"full", "phase"} =>
      /\ \A i \in 1..Len(phaseLog) :
           (phaseLog[i].outcome = "running" /\ RaisedThemes(phaseLog[i]) # {}) =>
             /\ pc \in {"theme_loop", "step_loop", "retry", "report", "quality"}
             /\ RaisedThemes(phaseLog[i]) \cap DOMAIN local_results = {}
             /\ LoggedThemes(phaseLog[i]) = SubSeq(themes, 1, Len(phaseLog[i].themeLog))
             /\ pc = "theme_loop" => ti = Len(phaseLog[i].themeLog) + 1
      /\ \A i \in 1..Len(phaseLog) :
           (phaseLog[i].outcome # "running" /\ RaisedThemes(phaseLog[i]) # {}) =>
             LET e == phaseLog[i]
             IN  /\ LoggedThemes(e) = phase_config[e.phase]
                 /\ e.phase \in DOMAIN phase_results
                 /\ RaisedThemes(e) \cap DOMAIN phase_results[e.phase] = {}
                 /\ e.outcome = "returned" =>
                      /\ e.phase \in DOMAIN saved
                      /\ RaisedThemes(e) \cap DOMAIN saved[e.phase] = {}
                 /\ e.outcome = "raised" => faults >= 2

\* C21 witness: a phase run is over in which the report of the first theme
\* raised, the second theme was recorded and the results were saved
C21_Witness ==
    /\ op = "phase" /\ pc = "done" /\ outcome = "returned"
    /\ Len(phaseLog) = 1
    /\ Len(phaseLog[1].themeLog) = 2
    /\ phaseLog[1].themeLog[1].outcome = "report_raised"
    /\ phaseLog[1].themeLog[2].outcome = "recorded"
    /\ DOMAIN saved[phase_name] = {phaseLog[1].themeLog[2].theme}

\* C22: the summary persisted at the end of a phase has exactly the theme
\* ids recorded in memory for that phase, and each persisted entry holds
\* only the report path (as text) and the quality result: no StepResult
\* payload is written.
C22_PersistedSummary ==
    \A p \in DOMAIN saved :
      /\ p \in DOMAIN phase_results
      /\ DOMAIN saved[p] = DOMAIN phase_results[p]
      /\ \A t \in DOMAIN saved[p] :
           /\ DOMAIN saved[p][t] = {"report_path", "quality"}
           /\ saved[p][t].report_path = <<"outputs", p, t>>
           /\ saved[p][t].quality = phase_results[p][t].quality

\* C22 witness: the results of a phase with two recorded themes, whose
\* entries hold step results with prompts, were saved
C22_Witness ==
    \E p \in DOMAIN saved :
      /\ Cardinality(DOMAIN saved[p]) = 2
      /\ \A t \in DOMAIN phase_results[p] :
           /\ Len(phase_results[p][t].results) = 3
           /\ phase_results[p][t].results[1].prompt # <<>>

\* C23: a missing or malformed phase configuration file is fatal to a run:
\* no engine call, theme report or quality check is performed, and after the
\* phase whose configuration could not be loaded no further phase is
\* attempted.
C23_MissingConfigIsFatal ==
    configFile = "missing" =>
      /\ trace = <<>>
      /\ DOMAIN phase_results = {}
      /\ Len(phaseLog) <= 1

(***************************************************************************)
(* Properties of the quality checker: the score.                           *)
(***************************************************************************)
\* the required sections that do not occur in the report text
SectionsAbsent ==
    {required_sections[i] : i \in 1..Len(required_sections)} \ SectionsFound

\* C24: without a custom validator, the score returned by check_report for
\* a readable report is the clamp to [0,100] of 100, minus 20 if the word
\* count is below min_word_count, minus 15 if the source count is below
\* min_sources, minus 10 per missing required section, plus the structure
\* score, plus the content score.
C24_ScoreFormula ==
    BuiltinRan =>
      LET content == report_file.content
          sum == 100
                 - (IF CountWords(content) < quality_config.min_word_count THEN 20 ELSE 0)
                 - (IF CountSources(content) < quality_config.min_sources THEN 15 ELSE 0)
                 - 10 * Cardinality(SectionsAbsent)
                 + CheckStructure(content) + CheckContentQuality(content)
      IN  qc_result[1].score = (IF sum < 0 THEN 0 ELSE IF sum > 100 THEN 100 ELSE sum)

\* C24 witness: a report with enough words and sources, two missing
\* sections and a positive structure score got a score inside (0, 100)
C24_Witness ==
    /\ BuiltinRan
    /\ "word_count" \notin IssuesOf(qc_result[1])
    /\ "sources" \notin IssuesOf(qc_result[1])
    /\ Cardinality(SectionsAbsent) = 2
    /\ CheckStructure(report_file.content) > 0
    /\ qc_result[1].score \in 1..99


(***************************************************************************)
(* The backup of a report: generate_theme_report run again and again for   *)
(* the same theme.  A file is a sequence of characters, "CR" and "LF"      *)
(* being the carriage return and the line feed.                            *)
(***************************************************************************)
MaxRuns == 3

\* the report contents the runs write (the result texts are copied into the
\* report as they are, carriage returns included)
BackupTexts ==
    {<<"a">>, <<"b", "LF", "c">>, <<"d", "CR", "LF", "e">>, <<"f", "CR", "g">>}

\* how _create_backup can fail: opening the report, opening the backup file,
\* or reading the report once the backup file has been opened for writing
BackupFailures == {"open_src", "open_dst", "read"}

NoFile == [state |-> "missing", content |-> <<>>]

\* read() of a file opened in text mode: the universal newlines of open()
\* turn "\r\n" and "\r" into "\n"
RECURSIVE ReadText(_)
ReadText(data) ==
    IF data = <<>> THEN <<>>
    ELSE IF data[1] = "CR"
         THEN <<"LF">> \o ReadText(IF Len(data) > 1 /\ data[2] = "LF"
                                   THEN SubSeq(data, 3, Len(data))
                                   ELSE Tail(data))
         ELSE <<data[1]>> \o ReadText(Tail(data))

\* _create_backup: the backup file after the call; every exception is only
\* logged.  open(backup_path, "w") empties the backup file before the
\* report is read.
create_backup(report, backup, failure) ==
    IF report.state # "exists" THEN backup
    ELSE IF failure \in {"open_src", "open_dst"} THEN backup
    ELSE IF failure = "read" THEN [state |-> "exists", content |-> <<>>]
    ELSE [state |-> "exists", content |-> ReadText(report.content)]

InitBK ==
    /\ call = "backup"
    /\ args \in [backup_enabled : BOOLEAN]
    /\ returns = <<>>
    /\ ControllerIdle
    /\ report_file = [state |-> "missing", content |-> <<>>, backup |-> NoFile]
    /\ quality_config = [min_word_count |-> 3000, min_sources |-> 10]
    /\ validator = "none"
    /\ qc_result = None

\* one run of generate_theme_report, lines 65-74: the backup, then the write
RunReport(failure) ==
    /\ call = "backup"
    /\ Len(returns) < MaxRuns
    /\ \E report_content \in BackupTexts :
         /\ report_file' =
               [state |-> "exists", content |-> report_content,
                backup |-> IF args.backup_enabled
                           THEN create_backup(report_file, report_file.backup, failure)
                           ELSE report_file.backup]
         /\ returns' = Append(returns, [existed |-> report_file.state = "exists",
                                        before |-> report_file.content,
                                        written |-> report_content,
                                        failure |-> failure])
    /\ UNCHANGED <<call, args, quality_config, validator, qc_result>>
    /\ UNCHANGED ctlVars

\* generate_theme_report when _create_backup meets no error
GenerateWithBackup == RunReport("none")

\* generate_theme_report when _create_backup meets an error
GenerateBackupFails ==
    /\ report_file.state = "exists"
    /\ args.backup_enabled
    /\ \E failure \in BackupFailures : RunReport(failure)

NextBK == GenerateWithBackup \/ GenerateBackupFails

SpecBK == InitBK /\ [][NextBK]_vars

\* C25: with backup enabled, after every run of generate_theme_report for a
\* report file that existed, the backup file holds the content the report
\* had before the run and the report file holds the new content.
C25_BackupHoldsPreviousReport ==
    (call = "backup" /\ args.backup_enabled /\ returns # <<>>
        /\ returns[Len(returns)].existed) =>
        /\ report_file.state = "exists"
        /\ report_file.content = returns[Len(returns)].written
        /\ report_file.backup.state = "exists"
        /\ report_file.backup.content = returns[Len(returns)].before

(***************************************************************************)
(* Termination of run_full_research.  The controller is one sequential     *)
(* thread: as long as a step of the running operation is possible, it is   *)
(* taken (every call of the engine, the generator and the checker returns  *)
(* or raises, every sleep ends).                                           *)
(***************************************************************************)
SpecLive == Init /\ [][Next]_vars /\ WF_vars(Next)

\* the run is over and final_phase, the last of the nine phases, was attempted
FinalPhaseAttempted ==
    /\ Len(phaseLog) = Len(phases)
    /\ phaseLog[Len(phaseLog)].phase = "final_phase"
    /\ phaseLog[Len(phaseLog)].outcome # "running"

\* C26: run_full_research terminates for every phase configuration and every
\* pattern of failures, and summary report generation is attempted exactly
\* once, after final_phase has been attempted.
C26_FullResearchTerminates ==
    /\ (op = "full") ~> (op = "full" /\ pc = "done" /\ summaries = 1)
    /\ [](op = "full" => summaries <= 1)
    /\ []((op = "full" /\ (summaries = 1 \/ pc = "summary")) => FinalPhaseAttempted)
    /\ []((op = "full" /\ pc = "done") => summaries = 1)

C26_Witness ==
    /\ op = "full"
    /\ pc = "done"
    /\ summaries = 1
    /\ FinalPhaseAttempted
    /\ \E i \in 1..Len(phaseLog) : RaisedThemes(phaseLog[i]) # {}

(***************************************************************************)
(* Properties of the retry loop.                                           *)
(***************************************************************************)
\* C27: during one step execution the engine is invoked at most max_retries
\* times; when every attempt raises, exactly max_retries calls are made, a
\* retry delay follows each failed attempt except the last, and the
\* exception of the last attempt is raised to the caller.
C27_RetryExhaustion ==
    lastExec.outcome # "none" =>
        /\ lastExec.calls <= max_retries
        /\ lastExec.outcome = "raised" =>
              /\ lastExec.calls = max_retries
              /\ lastExec.delays = (IF lastExec.calls = 0 THEN 0 ELSE lastExec.calls - 1)
              /\ lastExec.exception = Some([type |-> "engine_error",
                                             attempt |-> Some(lastExec.calls - 1)])

(***************************************************************************)
(* Properties of the in-memory phase results.                              *)
(***************************************************************************)
\* the recorded entry of phaseLog entry e agrees with what the log holds of
\* the theme at position j: step results, report path, quality result
EntryAsLogged(e, j) ==
    LET t == e.themeLog[j].theme
        logged == e.themeLog[j].entry[1]
        stored == phase_results[e.phase][t]
    IN  /\ stored.results = logged.results
        /\ stored.report_path = logged.report_path
        /\ stored.quality.passed = logged.passed

\* C28: once run_phase_research has finished the theme loop of a phase,
\* phase_results[phase] holds exactly the themes whose report generation and
\* quality check both completed without raising, each with its step results,
\* report path and quality result; the entries of the other phases are left
\* as they were.
C28_PhaseResultsEntry ==
    /\ [](op \in {"full", "phase"} =>
            \A i \in PhaseRunsDone :
               LET e == phaseLog[i]
               IN  /\ e.phase \in DOMAIN phase_results
                   /\ DOMAIN phase_results[e.phase] = RecordedThemes(e)
                   /\ \A j \in 1..Len(e.themeLog) :
                        e.themeLog[j].outcome = "recorded" => EntryAsLogged(e, j))
    /\ [][/\ DOMAIN phase_results' \subseteq DOMAIN phase_results \cup {phase_name}
          /\ \A q \in DOMAIN phase_results :
               q # phase_name =>
                 /\ q \in DOMAIN phase_results'
                 /\ phase_results'[q] = phase_results[q]]_vars

\* C28 witness: in a full run a phase has ended with one theme recorded and
\* one theme whose report or check raised, after an earlier recorded phase
C28_Witness ==
    /\ op = "full"
    /\ Cardinality(DOMAIN phase_results) >= 2
    /\ \E i \in PhaseRunsDone :
         /\ i >= 2
         /\ RaisedThemes(phaseLog[i]) # {}
         /\ RecordedThemes(phaseLog[i]) # {}
         /\ \A t \in RecordedThemes(phaseLog[i]) :
              Len(phase_results[phaseLog[i].phase][t].results) = 3

(***************************************************************************)
(* run_single_theme on a controller that has run a phase: the phase        *)
(* results of that run are in memory when the single theme is run.         *)
(***************************************************************************)
\* run_single_theme is called once run_phase_research has ended; args keeps
\* the phase results as they are at the call
SingleAfterPhase ==
    /\ pc = "done"
    /\ op = "phase"
    /\ RunSingleTheme
    /\ args' = [phase_results |-> phase_results]
    /\ UNCHANGED <<call, returns>>
    /\ UNCHANGED qcVars

NextST ==
    \/ StartPhase
    \/ PhaseLoad
    \/ NextTheme
    \/ SavePhase
    \/ SingleAfterPhase
    \/ BeginStep
    \/ RetryAttempt
    \/ RetryExhausted
    \/ StepsDone
    \/ GenerateReport
    \/ CheckQuality

SpecST == Init /\ [][NextST]_vars

\* C29: run_single_theme leaves the in-memory phase results as they were at
\* the call, in every outcome, so that get_previous_results returns for
\* every phase what it returned before the call.
C29_SingleThemeKeepsResults ==
    op = "single" =>
        /\ phase_results = args.phase_results
        /\ \A p \in PhaseSet :
             get_previous_results(p, phase_results)
                 = get_previous_results(p, args.phase_results)

\* C29 witness: a single-theme run of a theme of the phase whose results are
\* in memory has ended with its report generated and checked
C29_Witness ==
    /\ op = "single"
    /\ pc = "done"
    /\ outcome = "returned"
    /\ phase_name \in DOMAIN phase_results
    /\ phase_results[phase_name] # EmptyDict
    /\ Len(trace) > 0
    /\ trace[Len(trace)].kind = "quality"
    /\ ~trace[Len(trace)].raised

(***************************************************************************)
(* Properties of the prompt: the context of the previous phase.            *)
(***************************************************************************)
\* the positions of the previous-phase blocks in a prompt
PhaseBlocks(prompt) == {k \in 1..Len(prompt) : prompt[k].block = "previous_phase"}

\* the entries the block is to hold for the current phase: the recorded
\* themes of the preceding phase, none for final_phase
ExpectedPhaseEntries(prev) ==
    IF phase_name = "final_phase" THEN {} ELSE DOMAIN prev

====
